---- MODULE Spec2Model ----
(***************************************************************************)
(* A model of the tree-walking evaluator of the advent-of-code-2021-lang   *)
(* interpreter (src/src/eval.go, third revision, lines 1207-1939), of its  *)
(* value model (src/src/value.go) and of its native library                *)
(* (src/src/runtime.go).                                                   *)
(*                                                                         *)
(* The evaluator is a big-step interpreter: every eval* method of the Go   *)
(* code is an operator that takes the evaluator's machine state m and      *)
(* returns a result record [m, sig, val, err].  sig tells how the Go call  *)
(* ended: "ok" (nil error), "return"/"break"/"continue" (the three         *)
(* control-flow error values), "panic" (a Go panic unwinding the stack)    *)
(* or "cutoff" (the model's bound on an endless loop was hit).             *)
(***************************************************************************)
EXTENDS Integers, Sequences, FiniteSets, TLC

(***************************************************************************)
(* Bounds of the model.                                                    *)
(***************************************************************************)
IntBits == 8          \* width of the machine integer in the model
MaxLoopIter == 3      \* iterations after which an endless `for` is cut off
MaxSpan == 4          \* largest distance between the two ends of a range

IntMod == 2 ^ IntBits
IntMax == (IntMod \div 2) - 1
IntMin == 0 - (IntMod \div 2)

\* two's complement wrap-around of Go's int arithmetic
Wrap(x) == ((x - IntMin) % IntMod) + IntMin

(***************************************************************************)
(* Values (value.go:9-41).  One record shape for all tags; the fields a    *)
(* tag does not use hold their Go zero value.  ref is the pointer held by  *)
(* an Array, Map, Range or Fn value: an index into the machine's heap.     *)
(***************************************************************************)
NilValue == [tag |-> "nil", num |-> 0, str |-> << >>, ref |-> 0, nat |-> ""]
NumV(n) == [NilValue EXCEPT !.tag = "number", !.num = n]
StrV(s) == [NilValue EXCEPT !.tag = "string", !.str = s]
ArrV(h) == [NilValue EXCEPT !.tag = "array", !.ref = h]
MapV(p) == [NilValue EXCEPT !.tag = "map", !.ref = p]
RangeV(p) == [NilValue EXCEPT !.tag = "range", !.ref = p]
NativeV(name) == [NilValue EXCEPT !.tag = "<nativeFn>", !.nat = name]
FnV(p) == [NilValue EXCEPT !.tag = "<fn>", !.ref = p]
ZeroValue == NumV(0)

(***************************************************************************)
(* Errors (error.go:23-33) and the other values a Go panic can carry.      *)
(* kind "Runtime" is an Error with Tag RuntimeError; "GoString" is         *)
(* panic("..."), "GoError" is panic(err) of a plain error, "GoRuntime" is  *)
(* a panic raised by the Go runtime (index out of range, division by       *)
(* zero), "Break"/"Continue" a control-flow error value.                   *)
(***************************************************************************)
NoErr == [kind |-> "none", line |-> 0, msg |-> ""]
E(kind, msg, line) == [kind |-> kind, line |-> line, msg |-> msg]

Res(m, sig, val, err) == [m |-> m, sig |-> sig, val |-> val, err |-> err]
Ok(m, v) == Res(m, "ok", v, NoErr)
Panic(m, e) == Res(m, "panic", NilValue, e)

(***************************************************************************)
(* Strings are sequences of one-character strings.                         *)
(***************************************************************************)
DigitChars == <<"0", "1", "2", "3", "4", "5", "6", "7", "8", "9">>

RECURSIVE Digits(_)
Digits(n) == IF n < 10 THEN <<DigitChars[n + 1]>>
             ELSE Digits(n \div 10) \o <<DigitChars[(n % 10) + 1]>>

\* strconv.Itoa
Itoa(n) == IF n < 0 THEN <<"-">> \o Digits(0 - n) ELSE Digits(n)

(***************************************************************************)
(* The machine: the Evaluator's fields (eval.go:1224-1245) and the Go heap *)
(* reachable from them.                                                    *)
(*   envs, env    the Env records and ev.env (0 is the nil pointer)        *)
(*   frames       the stackFrame chain of ev.stackTop, as call-site lines  *)
(*   hdrs, backs  slice headers and their backing arrays                    *)
(*   maps, ranges, closures   the targets of Map, Range and Fn pointers    *)
(*   out          standard output, written by print/println                *)
(*   pushes, pops how many times pushEnv and popEnv have run               *)
(*   rev          the order in which this run ranges over Go maps          *)
(*   sections     ev.sections, from label to section node                  *)
(*   section      ev.section, the section being evaluated or none (nil)    *)
(***************************************************************************)
NativeNames == {"print", "println", "read", "len", "push", "slice", "delete",
                "range", "rangei"}

NativeBindings == [n \in NativeNames |-> NativeV(n)]

NewMachine ==
  [envs |-> << [parent |-> 0, vars |-> NativeBindings] >>, env |-> 1,
   frames |-> << >>, hdrs |-> << >>, backs |-> << >>, maps |-> << >>,
   ranges |-> << >>, closures |-> << >>, out |-> << >>,
   pushes |-> 0, pops |-> 0, rev |-> FALSE,
   sections |-> << >>, section |-> [t |-> "none"]]

\* eval.go:1296-1301
pushEnv(m) ==
  [m EXCEPT !.envs = Append(m.envs, [parent |-> m.env, vars |-> << >>]),
            !.env = Len(m.envs) + 1,
            !.pushes = m.pushes + 1]

\* eval.go:1303-1308
popEnv(m) ==
  IF m.envs[m.env].parent = 0
  THEN Panic(m, E("GoString", "attempted to pop last env", 0))
  ELSE Ok([m EXCEPT !.env = m.envs[m.env].parent, !.pops = m.pops + 1],
          NilValue)

\* eval.go:1310-1313
pushFrame(m, line) == [m EXCEPT !.frames = Append(m.frames, line)]

\* eval.go:1315-1320
popFrame(m) ==
  IF Len(m.frames) <= 1
  THEN Panic(m, E("GoString", "attempted to pop last stack frame", 0))
  ELSE Ok([m EXCEPT !.frames = SubSeq(m.frames, 1, Len(m.frames) - 1)],
          NilValue)

RECURSIVE DefiningEnv(_, _, _)
\* the walk of updateEnv and find: the first scope from e outwards that
\* defines name, or 0
DefiningEnv(m, e, name) ==
  IF e = 0 THEN 0
  ELSE IF name \in DOMAIN m.envs[e].vars THEN e
  ELSE DefiningEnv(m, m.envs[e].parent, name)

\* variant: a declaration rebinds the name where it is already defined
setEnvNearest(m, name, val) ==
  [m EXCEPT !.envs[IF DefiningEnv(m, m.env, name) = 0 THEN m.env
                   ELSE DefiningEnv(m, m.env, name)].vars =
              (name :> val) @@ @]

\* eval.go:1322-1324
setEnv(m, name, val) ==
  [m EXCEPT !.envs[m.env].vars = (name :> val) @@ m.envs[m.env].vars]

\* variant: an assignment to an undefined name declares it in the active scope
updateEnvOrDeclare(m, name, val) ==
  LET e == DefiningEnv(m, m.env, name)
  IN IF e = 0 THEN setEnv(m, name, val)
     ELSE [m EXCEPT !.envs[e].vars = (name :> val) @@ m.envs[e].vars]

\* eval.go:1326-1336
updateEnv(m, name, val) ==
  LET e == DefiningEnv(m, m.env, name)
  IN IF e = 0 THEN m
     ELSE [m EXCEPT !.envs[e].vars = (name :> val) @@ m.envs[e].vars]

\* eval.go:1338-1348
find(m, name) ==
  LET e == DefiningEnv(m, m.env, name)
  IN IF e = 0 THEN [ok |-> FALSE, val |-> NilValue]
     ELSE [ok |-> TRUE, val |-> m.envs[e].vars[name]]

(***************************************************************************)
(* Go slices.  A header is [b, off, len, cap]: backing array b, the        *)
(* offset of element 0 in it, length and capacity.                         *)
(***************************************************************************)
NilSlots(n) == [i \in 1..n |-> NilValue]

\* the elements seen through a header
Elems(m, h) == [i \in 1..h.len |-> m.backs[h.b][h.off + i]]

ArrayElems(m, v) == Elems(m, m.hdrs[v.ref])

\* capacity chosen by Go's growslice when one element is appended to a
\* full slice of Values (doubling, for the small sizes of the model)
GrowCap(cap) == IF cap = 0 THEN 1 ELSE 2 * cap

\* make([]Value, 0)
EmptyHdr == [b |-> 0, off |-> 0, len |-> 0, cap |-> 0]

\* Go's append(s, x): writes in place when there is spare capacity,
\* otherwise copies to a new backing array
AppendSlice(m, h, x) ==
  IF h.len < h.cap
  THEN [m |-> [m EXCEPT !.backs[h.b][h.off + h.len + 1] = x],
        h |-> [h EXCEPT !.len = h.len + 1]]
  ELSE LET nc == GrowCap(h.cap)
           old == IF h.b = 0 THEN << >> ELSE Elems(m, h)
           nb == old \o <<x>> \o NilSlots(nc - h.len - 1)
       IN [m |-> [m EXCEPT !.backs = Append(m.backs, nb)],
           h |-> [b |-> Len(m.backs) + 1, off |-> 0, len |-> h.len + 1,
                  cap |-> nc]]

RECURSIVE AppendAll(_, _, _, _)
AppendAll(m, h, xs, i) ==
  IF i > Len(xs) THEN [m |-> m, h |-> h]
  ELSE LET a == AppendSlice(m, h, xs[i]) IN AppendAll(a.m, a.h, xs, i + 1)

\* Value{Tag: ValArray, Array: &s}: store the header, return the Value
NewArray(m, h) ==
  Ok([m EXCEPT !.hdrs = Append(m.hdrs, h)], ArrV(Len(m.hdrs) + 1))

(***************************************************************************)
(* Go maps, as the sequence of their [k, v] entries.                       *)
(***************************************************************************)
MapHas(mp, k) == \E i \in 1..Len(mp) : mp[i].k = k

MapGet(mp, k) ==
  IF MapHas(mp, k)
  THEN mp[CHOOSE i \in 1..Len(mp) : mp[i].k = k].v
  ELSE NilValue

MapSet(mp, k, v) ==
  IF MapHas(mp, k)
  THEN [mp EXCEPT ![CHOOSE i \in 1..Len(mp) : mp[i].k = k].v = v]
  ELSE Append(mp, [k |-> k, v |-> v])

Reverse(s) == [i \in 1..Len(s) |-> s[Len(s) + 1 - i]]

\* the entries in the order a `range` over the map yields them in this run
MapOrder(m, mp) == IF m.rev THEN Reverse(mp) ELSE mp

(***************************************************************************)
(* Operations on values (value.go).                                        *)
(***************************************************************************)
\* ValueTag.String(), the names given by the line comments of value.go:13-20
TagChars(tag) ==
  CASE tag = "nil" -> <<"n", "i", "l">>
    [] tag = "string" -> <<"s", "t", "r", "i", "n", "g">>
    [] tag = "number" -> <<"n", "u", "m", "b", "e", "r">>
    [] tag = "array" -> <<"a", "r", "r", "a", "y">>
    [] tag = "map" -> <<"m", "a", "p">>
    [] tag = "range" -> <<"r", "a", "n", "g", "e">>
    [] tag = "<nativeFn>" -> <<"<", "n", "a", "t", "i", "v", "e", "F", "n", ">">>
    [] tag = "<fn>" -> <<"<", "f", "n", ">">>

\* the backspace character "\\b" of value.go:76
BS == "<BS>"

RECURSIVE Repr(_, _)
RECURSIVE ReprItems(_, _, _)
RECURSIVE ReprEntries(_, _, _)

\* the loop of value.go:54-59
ReprItems(m, xs, i) ==
  IF i > Len(xs) THEN << >>
  ELSE Repr(m, xs[i]) \o (IF i < Len(xs) THEN <<",", " ">> ELSE << >>)
       \o ReprItems(m, xs, i + 1)

\* the loop of value.go:66-72
ReprEntries(m, es, i) ==
  IF i > Len(es) THEN << >>
  ELSE es[i].k \o <<":", " ">> \o Repr(m, es[i].v) \o <<",", " ">>
       \o ReprEntries(m, es, i + 1)

\* value.go:43-82
Repr(m, v) ==
  CASE v.tag = "nil" -> <<"n", "i", "l">>
    [] v.tag = "string" -> <<"'">> \o v.str \o <<"'">>
    [] v.tag = "number" -> Itoa(v.num)
    [] v.tag = "array" -> <<"[">> \o ReprItems(m, ArrayElems(m, v), 1) \o <<"]">>
    [] v.tag = "map" ->
         LET es == MapOrder(m, m.maps[v.ref])
         IN <<"{">> \o ReprEntries(m, es, 1)
            \o (IF Len(es) = 0 THEN <<"}">> ELSE <<BS, BS, "}">>)
    [] OTHER -> <<"<">> \o TagChars(v.tag) \o <<">", "\n">>

\* value.go:84-95
String(m, v) ==
  CASE v.tag = "nil" -> <<"n", "i", "l">>
    [] v.tag = "string" -> v.str
    [] v.tag = "number" -> Itoa(v.num)
    [] OTHER -> Repr(m, v)

\* value.go:97-103
isTruthy(v) == IF v.tag = "number" THEN v.num # 0 ELSE FALSE

\* variant: negate without taking the absolute value
negateNoAbs(v) ==
  IF v.tag = "number" THEN NumV(Wrap(v.num - 1)) ELSE NilValue

\* value.go:105-116
negate(v) ==
  IF v.tag = "number"
  THEN LET num == Wrap(v.num - 1)
       IN NumV(IF num < 0 THEN Wrap(0 - num) ELSE num)
  ELSE NilValue

\* value.go:189-201; err is TRUE when Compare returns an error
Compare(v, b) ==
  CASE v.tag = "number" /\ b.tag = "number" ->
         [res |-> v.num = b.num, err |-> FALSE]
    [] v.tag = "string" /\ b.tag = "string" ->
         [res |-> v.str = b.str, err |-> FALSE]
    [] v.tag = "nil" /\ b.tag = "nil" -> [res |-> TRUE, err |-> FALSE]
    [] \/ v.tag = "nil" /\ b.tag # "nil"
       \/ v.tag # "nil" /\ b.tag = "nil" -> [res |-> FALSE, err |-> FALSE]
    [] OTHER -> [res |-> FALSE, err |-> TRUE]

\* value.go:118-155; st is "ok", "err" (an error is returned) or "gopanic"
\* (the Go runtime panics on the index expression)
getKey(m, v, key) ==
  LET cannot == [st |-> "err", val |-> NilValue, msg |-> "cannot subscript"]
      range == [st |-> "err", val |-> NilValue, msg |-> "index out of range"]
  IN CASE v.tag = "array" /\ key.tag = "number" ->
            IF key.num >= m.hdrs[v.ref].len \/ key.num < 0 THEN range
            ELSE [st |-> "ok", val |-> ArrayElems(m, v)[key.num + 1],
                  msg |-> ""]
       [] v.tag = "map" /\ key.tag = "number" ->
            [st |-> "ok", val |-> MapGet(m.maps[v.ref], Itoa(key.num)),
             msg |-> ""]
       [] v.tag = "map" /\ key.tag = "string" ->
            [st |-> "ok", val |-> MapGet(m.maps[v.ref], key.str), msg |-> ""]
       [] v.tag = "string" /\ key.tag = "number" ->
            IF key.num >= Len(v.str) THEN range
            ELSE IF key.num < 0
            THEN [st |-> "gopanic", val |-> NilValue,
                  msg |-> "index out of range"]
            ELSE [st |-> "ok", val |-> StrV(<<v.str[key.num + 1]>>),
                  msg |-> ""]
       [] OTHER -> cannot

\* value.go:157-181; st is "ok" (true), "false" or "gopanic"
setKey(m, v, key, val) ==
  CASE v.tag = "array" /\ key.tag = "number" ->
         LET h == m.hdrs[v.ref]
         IN IF key.num < 0 \/ key.num >= h.len
            THEN [m |-> m, st |-> "gopanic"]
            ELSE [m |-> [m EXCEPT !.backs[h.b][h.off + key.num + 1] = val],
                  st |-> "ok"]
    [] v.tag = "map" /\ key.tag = "number" ->
         [m |-> [m EXCEPT !.maps[v.ref] = MapSet(@, Itoa(key.num), val)],
          st |-> "ok"]
    [] v.tag = "map" /\ key.tag = "string" ->
         [m |-> [m EXCEPT !.maps[v.ref] = MapSet(@, key.str, val)],
          st |-> "ok"]
    [] OTHER -> [m |-> m, st |-> "false"]

(***************************************************************************)
(* Ranges (value.go:203-217).                                              *)
(***************************************************************************)
\* Range.done
done(r) == r.current = r.end

\* Range.next
next(r) == IF ~done(r) THEN [r EXCEPT !.current = Wrap(r.current + r.step)]
           ELSE r

NewRange(m, r) ==
  Ok([m EXCEPT !.ranges = Append(m.ranges, r)], RangeV(Len(m.ranges) + 1))

(***************************************************************************)
(* The native library (runtime.go).                                        *)
(***************************************************************************)
\* runtime.go:11-22; the error checkArgs panics with, or NoErr
checkArgs(args, tags) ==
  IF Len(args) # Len(tags) THEN E("Runtime", "arity mismatch", 0)
  ELSE IF \E i \in 1..Len(tags) : args[i].tag # tags[i]
  THEN E("Runtime", "arg type mismatch", 0)
  ELSE NoErr

RECURSIVE PrintArgs(_, _, _)
PrintArgs(m, args, i) ==
  IF i > Len(args) THEN << >>
  ELSE (IF i > 1 THEN <<" ">> ELSE << >>) \o String(m, args[i])
       \o PrintArgs(m, args, i + 1)

\* runtime.go:24-33
nativePrint(m, args) ==
  Ok([m EXCEPT !.out = m.out \o PrintArgs(m, args, 1)], NilValue)

\* runtime.go:35-39
nativePrintLn(m, args) ==
  LET p == nativePrint(m, args)
  IN Ok([p.m EXCEPT !.out = p.m.out \o <<"\n">>], p.val)

\* the files os.ReadFile finds, with their contents
Files == [name \in {<<"i", "n">>} |-> <<"1", "\n", "2">>]

\* runtime.go:50-58
nativeRead(m, args) ==
  LET chk == checkArgs(args, <<"string">>)
  IN IF chk # NoErr THEN Panic(m, chk)
     ELSE IF args[1].str \notin DOMAIN Files
     THEN Panic(m, E("GoError", "open: no such file or directory", 0))
     ELSE Ok(m, StrV(Files[args[1].str]))

\* runtime.go:71-80
nativeLen(m, args) ==
  IF Len(args) = 0 THEN Panic(m, E("GoRuntime", "index out of range", 0))
  ELSE Ok(m, NumV(CASE args[1].tag = "array" -> m.hdrs[args[1].ref].len
                    [] args[1].tag = "string" -> Len(args[1].str)
                    [] OTHER -> 0))

\* variant: push grows its argument in place and returns it
nativePushInPlace(m, args) ==
  IF Len(args) < 2 THEN Panic(m, E("GoString", "arg count mismatch", 0))
  ELSE IF args[1].tag # "array"
  THEN Panic(m, E("GoString", "can only push to an array", 0))
  ELSE LET a == AppendSlice(m, m.hdrs[args[1].ref], args[2])
       IN Ok([a.m EXCEPT !.hdrs[args[1].ref] = a.h], args[1])

\* runtime.go:82-94
nativePush(m, args) ==
  IF Len(args) < 2 THEN Panic(m, E("GoString", "arg count mismatch", 0))
  ELSE IF args[1].tag # "array"
  THEN Panic(m, E("GoString", "can only push to an array", 0))
  ELSE LET a == AppendSlice(m, m.hdrs[args[1].ref], args[2])
       IN NewArray(a.m, a.h)

\* runtime.go:96-107
nativeSlice(m, args) ==
  LET chk == checkArgs(args, <<"array", "number", "number">>)
  IN IF chk # NoErr THEN Panic(m, chk)
     ELSE LET array == m.hdrs[args[1].ref]
              from == args[2].num
              to == args[3].num
          IN IF \/ from < 0 \/ from > array.len - 1
                \/ to < 0 \/ to > array.len - 1
             THEN Panic(m, E("Runtime", "invalid index", 0))
             ELSE IF from > to
             THEN Panic(m, E("GoRuntime", "slice bounds out of range", 0))
             ELSE NewArray(m, [b |-> array.b, off |-> array.off + from,
                               len |-> to - from, cap |-> array.cap - from])

\* runtime.go:109-120
nativeDelete(m, args) ==
  LET chk == checkArgs(args, <<"array", "number">>)
  IN IF chk # NoErr THEN Panic(m, chk)
     ELSE LET old == ArrayElems(m, args[1])
              keep == SelectSeq([i \in 1..Len(old) |-> <<i, old[i]>>],
                                LAMBDA p : p[1] - 1 # args[2].num)
              a == AppendAll(m, EmptyHdr, [i \in 1..Len(keep) |-> keep[i][2]],
                             1)
          IN NewArray(a.m, a.h)

\* runtime.go:122-132
nativeRange(m, args) ==
  LET chk == checkArgs(args, <<"number", "number">>)
  IN IF chk # NoErr THEN Panic(m, chk)
     ELSE LET from == args[1].num
              to == args[2].num
              step == IF to < from THEN 0 - 1 ELSE 1
          IN NewRange(m, [current |-> from, end |-> to, step |-> step])

\* runtime.go:134-145
nativeRangeI(m, args) ==
  LET chk == checkArgs(args, <<"number", "number">>)
  IN IF chk # NoErr THEN Panic(m, chk)
     ELSE LET from == args[1].num
              to == args[2].num
              step == IF to < from THEN 0 - 1 ELSE 1
          IN NewRange(m, [current |-> from, end |-> Wrap(to + step),
                          step |-> step])

\* fnVal.NativeFn(args), eval.go:1486
CallNative(name, m, args) ==
  CASE name = "print" -> nativePrint(m, args)
    [] name = "println" -> nativePrintLn(m, args)
    [] name = "read" -> nativeRead(m, args)
    [] name = "len" -> nativeLen(m, args)
    [] name = "delete" -> nativeDelete(m, args)
    [] name = "push" -> nativePush(m, args)
    [] name = "slice" -> nativeSlice(m, args)
    [] name = "range" -> nativeRange(m, args)
    [] name = "rangei" -> nativeRangeI(m, args)

(***************************************************************************)
(* The syntax tree (ast.go:570-761).  Every node is a record whose field t *)
(* names the Go type; line is the line GetLineAndCol gives for the node's  *)
(* token.                                                                  *)
(***************************************************************************)
NoNode == [t |-> "none"]
Str(s) == [t |-> "str", s |-> s, line |-> 1]
Num(n) == [t |-> "num", n |-> n, line |-> 1]
Nil == [t |-> "nil", line |-> 1]
Id(name) == [t |-> "id", name |-> name, line |-> 1]
Call(f, args) == [t |-> "call", f |-> f, args |-> args, line |-> 1]
Func(name, params, body) ==
  [t |-> "fn", name |-> name, params |-> params, body |-> body, line |-> 1]
Bin(op, l, r) == [t |-> "bin", op |-> op, l |-> l, r |-> r, line |-> 1]
Un(op, l) == [t |-> "un", op |-> op, l |-> l, line |-> 1]
Arr(items) == [t |-> "arr", items |-> items, line |-> 1]
MapLit(items) == [t |-> "map", items |-> items, line |-> 1]
At(node, line) == [node EXCEPT !.line = line]

ExprStmt(e) == [t |-> "expr", e |-> e]
Var(name, e) == [t |-> "var", name |-> name, e |-> e]
For(id, idx, e, body) ==
  [t |-> "for", id |-> id, idx |-> idx, e |-> e, body |-> body]
If(c, body, else) == [t |-> "if", c |-> c, body |-> body, else |-> else]
Return(e) == [t |-> "return", e |-> e]
Continue == [t |-> "continue"]
Break == [t |-> "break"]
Match(e, cases) == [t |-> "match", e |-> e, cases |-> cases]
Case(cond, body) == [cond |-> cond, body |-> body]
Block(body) == [t |-> "block", body |-> body, line |-> 1]
Section(label, body) == [t |-> "section", label |-> label, body |-> body]

\* the name the parser gives a fn literal without one (parser.go:329)
Anonymous == "<anonymous>"

(***************************************************************************)
(* The evaluator (eval.go:1376-1939).                                      *)
(***************************************************************************)
\* ev.fmtError, eval.go:1350-1362
fmtError(node, msg) == E("Runtime", msg, node.line)

\* variant: the scope is popped only when the block ends normally
DeferPopEnvOnSuccess(r) ==
  LET p == popEnv(r.m)
  IN IF r.sig # "ok" THEN r
     ELSE IF p.sig = "panic" THEN p ELSE [r EXCEPT !.m = p.m]

\* a deferred ev.popEnv() running as the function returns or unwinds
DeferPopEnv(r) ==
  LET p == popEnv(r.m)
  IN IF p.sig = "panic" THEN p ELSE [r EXCEPT !.m = p.m]

\* Go's truncating division and remainder, on the machine integer
TruncDiv(a, b) ==
  LET q == (IF a < 0 THEN 0 - a ELSE a) \div (IF b < 0 THEN 0 - b ELSE b)
  IN Wrap(IF (a < 0) = (b < 0) THEN q ELSE 0 - q)

TruncMod(a, b) == a - b * TruncDiv(a, b)

BoolNum(b) == NumV(IF b THEN 1 ELSE 0)

\* the coercion "nil to 0" of eval.go:1571-1577 and its repetitions
NilToZero(v) == IF v.tag = "nil" THEN ZeroValue ELSE v

\* eval.go:1569-1698, after both operands have been evaluated
BinaryOp(m, expr, lhs0, rhs0) ==
  LET op == expr.op
      lhs == NilToZero(lhs0)
      rhs == NilToZero(rhs0)
      nums == lhs.tag = "number" /\ rhs.tag = "number"
  IN CASE op = "+" ->
            IF nums THEN Ok(m, NumV(Wrap(lhs.num + rhs.num)))
            ELSE IF lhs.tag = "string" \/ rhs.tag = "string"
            THEN Ok(m, StrV(String(m, lhs) \o String(m, rhs)))
            ELSE Panic(m, fmtError(expr,
                         "operator only supported for numbers and strings"))
       [] op \in {"-", "*", "/", "%"} ->
            IF ~nums
            THEN Panic(m, fmtError(expr, "operator only supported for numbers"))
            ELSE IF op \in {"/", "%"} /\ rhs.num = 0
            THEN Panic(m, E("GoRuntime", "integer divide by zero", 0))
            ELSE Ok(m, NumV(CASE op = "-" -> Wrap(lhs.num - rhs.num)
                              [] op = "*" -> Wrap(lhs.num * rhs.num)
                              [] op = "/" -> TruncDiv(lhs.num, rhs.num)
                              [] op = "%" -> TruncMod(lhs.num, rhs.num)))
       [] op \in {"==", "!="} ->
            LET c == Compare(lhs0, rhs0)
            IN IF c.err THEN Panic(m, fmtError(expr, "cannot compare"))
               ELSE IF op = "!=" THEN Ok(m, negate(BoolNum(c.res)))
               ELSE Ok(m, BoolNum(c.res))
       [] op \in {">", ">=", "<", "<="} ->
            IF nums
            THEN Ok(m, BoolNum(CASE op = ">" -> lhs.num > rhs.num
                                 [] op = ">=" -> lhs.num >= rhs.num
                                 [] op = "<" -> lhs.num < rhs.num
                                 [] op = "<=" -> lhs.num <= rhs.num))
            ELSE Panic(m, fmtError(expr, "cannot compare"))
       [] op \in {"&&", "||"} ->
            IF ~nums
            THEN Panic(m, fmtError(expr, "operator only supported for numbers"))
            ELSE Ok(m, BoolNum(IF op = "&&"
                               THEN isTruthy(lhs) /\ isTruthy(rhs)
                               ELSE isTruthy(lhs) \/ isTruthy(rhs)))
       [] op = "[" ->
            LET g == getKey(m, lhs0, rhs0)
            IN CASE g.st = "ok" -> Ok(m, g.val)
                 [] g.st = "err" -> Panic(m, fmtError(expr, g.msg))
                 [] g.st = "gopanic" -> Panic(m, E("GoRuntime", g.msg, 0))
       [] OTHER -> Panic(m, fmtError(expr, "unknown operator"))

\* a call of one of the mutually recursive methods of Evaluator: op names
\* the method, a holds the evaluator and the arguments
RECURSIVE Eval(_, _)

\* the loops that evaluate expressions left to right and collect the values
\* (eval.go:1466-1469, 1506-1509); the result carries vals instead of val
evalExprs(m, es, i, acc) ==
  IF i > Len(es) THEN [m |-> m, sig |-> "ok", vals |-> acc, err |-> NoErr]
  ELSE LET r == Eval("evalExpr", <<m, es[i]>>)
       IN IF r.sig # "ok"
          THEN [m |-> r.m, sig |-> r.sig, vals |-> acc, err |-> r.err]
          ELSE Eval("evalExprs", <<r.m, es, i + 1, Append(acc, r.val)>>)

\* eval.go:1512-1516; the result carries the entries in vals
evalMapItems(m, items, i, acc) ==
  IF i > Len(items) THEN [m |-> m, sig |-> "ok", vals |-> acc, err |-> NoErr]
  ELSE LET r == Eval("evalExpr", <<m, items[i].v>>)
       IN IF r.sig # "ok"
          THEN [m |-> r.m, sig |-> r.sig, vals |-> acc, err |-> r.err]
          ELSE Eval("evalMapItems", <<r.m, items, i + 1, MapSet(acc, items[i].k, r.val)>>)

\* the recover() of eval.go:1473-1483 applied to the outcome of a native
NativeRecover(r, node) ==
  IF r.sig = "panic" /\ r.err.kind \in {"Runtime", "Lex", "Parse"}
  THEN [r EXCEPT !.err.line = node.line]
  ELSE r

\* eval.go:1449-1521
evalExpr(m, node) ==
  CASE node.t = "str" -> Ok(m, StrV(node.s))
    [] node.t = "num" -> Ok(m, NumV(node.n))
    [] node.t = "nil" -> Ok(m, NilValue)
    [] node.t = "id" ->
         LET f == find(m, node.name)
         IN IF ~f.ok THEN Panic(m, fmtError(node, "unknown variable"))
            ELSE Ok(m, f.val)
    [] node.t = "call" ->
         LET fnVal == Eval("evalExpr", <<m, node.f>>)
         IN IF fnVal.sig # "ok" THEN fnVal
            ELSE LET args == Eval("evalExprs", <<fnVal.m, node.args, 1, << >>>>)
                 IN IF args.sig # "ok"
                    THEN Res(args.m, args.sig, NilValue, args.err)
                    ELSE CASE fnVal.val.tag = "<nativeFn>" ->
                                NativeRecover(
                                  CallNative(fnVal.val.nat, args.m, args.vals),
                                  node)
                           [] fnVal.val.tag = "<fn>" ->
                                LET r == Eval("fn", <<args.m, node, fnVal.val, args.vals>>)
                                IN IF r.sig \in {"break", "continue"}
                                   THEN Panic(r.m, E(IF r.sig = "break"
                                                     THEN "Break"
                                                     ELSE "Continue", "", 0))
                                   ELSE r
                           [] OTHER ->
                                Panic(args.m, fmtError(node,
                                        "attempted to call non function"))
    [] node.t = "fn" ->
         LET fnVal == FnV(Len(m.closures) + 1)
             m1 == [m EXCEPT !.closures =
                       Append(m.closures, [fn |-> node, env |-> m.env])]
         IN Ok(setEnv(m1, node.name, fnVal), fnVal)
    [] node.t = "bin" -> Eval("evalBinaryExpr", <<m, node>>)
    [] node.t = "un" ->
         LET lhs == Eval("evalExpr", <<m, node.l>>)
         IN IF lhs.sig # "ok" THEN lhs
            ELSE IF node.op = "-"
            THEN IF lhs.val.tag # "number"
                 THEN Panic(lhs.m, fmtError(node,
                              "operator only supported for numbers"))
                 ELSE Ok(lhs.m, NumV(Wrap(0 - lhs.val.num)))
            ELSE Panic(lhs.m, fmtError(node, "unknown unary operator"))
    [] node.t = "arr" ->
         LET items == Eval("evalExprs", <<m, node.items, 1, << >>>>)
         IN IF items.sig # "ok"
            THEN Res(items.m, items.sig, NilValue, items.err)
            ELSE LET a == AppendAll(items.m, EmptyHdr, items.vals, 1)
                 IN NewArray(a.m, a.h)
    [] node.t = "map" ->
         LET items == Eval("evalMapItems", <<m, node.items, 1, << >>>>)
         IN IF items.sig # "ok"
            THEN Res(items.m, items.sig, NilValue, items.err)
            ELSE Ok([items.m EXCEPT !.maps = Append(@, items.vals)],
                    MapV(Len(items.m.maps) + 1))
    [] OTHER -> Panic(m, fmtError(node, "unhandled expression type"))

\* variant: && and || stop at the operand that settles the result
evalBinaryExprShortCircuit(m, expr) ==
  IF expr.op = "=" THEN Eval("evalAssignment", <<m, expr>>)
  ELSE LET lhs == Eval("evalExpr", <<m, expr.l>>)
       IN IF lhs.sig # "ok" THEN lhs
          ELSE IF expr.op = "&&" /\ lhs.val.tag \in {"number", "nil"}
                  /\ ~isTruthy(lhs.val)
          THEN Ok(lhs.m, NumV(0))
          ELSE IF expr.op = "||" /\ isTruthy(lhs.val)
          THEN Ok(lhs.m, NumV(1))
          ELSE LET rhs == Eval("evalExpr", <<lhs.m, expr.r>>)
               IN IF rhs.sig # "ok" THEN rhs
                  ELSE BinaryOp(rhs.m, expr, lhs.val, rhs.val)

\* eval.go:1561-1567, then BinaryOp
evalBinaryExpr(m, expr) ==
  IF expr.op = "=" THEN Eval("evalAssignment", <<m, expr>>)
  ELSE LET lhs == Eval("evalExpr", <<m, expr.l>>)
       IN IF lhs.sig # "ok" THEN lhs
          ELSE LET rhs == Eval("evalExpr", <<lhs.m, expr.r>>)
               IN IF rhs.sig # "ok" THEN rhs
                  ELSE BinaryOp(rhs.m, expr, lhs.val, rhs.val)

\* eval.go:1715-1740
evalAssignment(m, expr) ==
  CASE expr.l.t = "id" ->
         LET val == Eval("evalExpr", <<m, expr.r>>)
         IN IF val.sig # "ok" THEN val
            ELSE Ok(updateEnv(val.m, expr.l.name, val.val), val.val)
    [] expr.l.t = "bin" /\ expr.l.op = "[" ->
         LET lhs == Eval("evalExpr", <<m, expr.l.l>>)
         IN IF lhs.sig # "ok" THEN lhs
            ELSE LET key == Eval("evalExpr", <<lhs.m, expr.l.r>>)
                 IN IF key.sig # "ok" THEN key
                    ELSE LET val == Eval("evalExpr", <<key.m, expr.r>>)
                         IN IF val.sig # "ok" THEN val
                            ELSE LET k == setKey(val.m, lhs.val, key.val,
                                                 val.val)
                                 IN (CASE k.st = "ok" -> Ok(k.m, val.val)
                                       [] k.st = "false" ->
                                            Panic(k.m, fmtError(expr.l,
                                                    "is not subscriptable"))
                                       [] k.st = "gopanic" ->
                                            Panic(k.m, E("GoRuntime",
                                                    "index out of range", 0)))
    [] OTHER ->
         Panic(m, fmtError(expr,
                 "left hand side of assignment is not assignable"))

\* the loop "for each stmt: evalStmt; if err != nil return err" shared by
\* evalBlock (1437-1442), fn (1548-1556), match (1841-1846) and
\* runForLoopBody (1924-1936): it stops at the first result that is not ok
evalStmts(m, stmts, i) ==
  IF i > Len(stmts) THEN Ok(m, NilValue)
  ELSE LET r == Eval("evalStmt", <<m, stmts[i]>>)
       IN IF r.sig # "ok" THEN r ELSE Eval("evalStmts", <<r.m, stmts, i + 1>>)

\* eval.go:1432-1447
evalBlock(m, block) ==
  IF block.t = "block"
  THEN DeferPopEnv(Eval("evalStmts", <<pushEnv(m), block.body, 1>>))
  ELSE Panic(m, E("Runtime", "expected a block", 0))

\* eval.go:1742-1789
evalStmt(m, node) ==
  CASE node.t = "var" ->
         LET val == Eval("evalExpr", <<m, node.e>>)
         IN IF val.sig # "ok" THEN val
            ELSE Ok(setEnv(val.m, node.name, val.val), NilValue)
    [] node.t = "for" ->
         LET r == Eval("forLoop", <<m, node>>)
         IN IF r.sig = "ok" THEN Ok(r.m, NilValue) ELSE r
    [] node.t = "expr" -> Eval("evalExpr", <<m, node.e>>)
    [] node.t = "if" ->
         LET val == Eval("evalExpr", <<m, node.c>>)
         IN IF val.sig # "ok" THEN val
            ELSE IF isTruthy(val.val) THEN Eval("evalBlock", <<val.m, node.body>>)
            ELSE IF node.else.t # "none"
            THEN LET r == Eval("evalStmt", <<val.m, node.else>>)
                 IN IF r.sig = "ok" THEN Ok(r.m, NilValue) ELSE r
            ELSE Ok(val.m, NilValue)
    [] node.t = "return" ->
         LET val == Eval("evalExpr", <<m, node.e>>)
         IN IF val.sig # "ok" THEN val
            ELSE Res(val.m, "return", val.val, NoErr)
    [] node.t = "continue" -> Res(m, "continue", NilValue, NoErr)
    [] node.t = "break" -> Res(m, "break", NilValue, NoErr)
    [] node.t = "match" -> Eval("match", <<m, node>>)
    [] node.t = "block" -> Eval("evalBlock", <<m, node>>)
    [] OTHER -> Panic(m, E("GoString", "unhandled statement type", 0))

\* variant: the deferred function leaves the environment where popEnv put it
DeferFnNoRestore(r, prevEnv) ==
  LET pf == popFrame(r.m)
      pe == popEnv(pf.m)
  IN IF pf.sig = "panic" THEN pf
     ELSE IF pe.sig = "panic" THEN pe
     ELSE [r EXCEPT !.m = pe.m]

\* the deferred function of eval.go:1536-1541
DeferFn(r, prevEnv) ==
  LET pf == popFrame(r.m)
      pe == popEnv(pf.m)
  IN IF pf.sig = "panic" THEN pf
     ELSE IF pe.sig = "panic" THEN pe
     ELSE [r EXCEPT !.m = [pe.m EXCEPT !.env = prevEnv]]

RECURSIVE BindParams(_, _, _, _)
\* eval.go:1543-1545
BindParams(m, params, args, i) ==
  IF i > Len(params) THEN m
  ELSE BindParams(setEnv(m, params[i], args[i]), params, args, i + 1)

\* variant: dynamic scoping, the call runs in the caller's environment
CallEnvOfCaller(m, closure) == m.env

\* eval.go:1533: the environment a call runs in is the closure's
CallEnv(m, closure) == closure.env

\* eval.go:1523-1559
fn(m, node, fnVal, args) ==
  LET closure == m.closures[fnVal.ref]
      f == closure.fn
      prevEnv == m.env
  IN IF Len(f.params) # Len(args)
     THEN Panic(m, fmtError(f, "arity mismatch"))
     ELSE LET m1 == pushFrame(pushEnv([m EXCEPT !.env = CallEnv(m, closure)]),
                              node.line)
              m2 == BindParams(m1, f.params, args, 1)
              r == Eval("evalStmts", <<m2, f.body.body, 1>>)
          IN DeferFn(CASE r.sig = "return" -> Ok(r.m, r.val)
                       [] r.sig = "ok" -> Ok(r.m, NilValue)
                       [] OTHER -> r,
                     prevEnv)

\* eval.go:1836-1838: every name of vars is bound to the address of the one
\* loop variable v, which after the loop holds the value of the entry the
\* range over vars yielded last
MatchBind(m, vars) ==
  LET order == MapOrder(m, vars)
      bind(k) == order[Len(order)].v
  IN IF Len(order) = 0 THEN m
     ELSE [m EXCEPT !.envs[m.env].vars =
             [k \in {order[i].k : i \in 1..Len(order)} |-> bind(k)]
             @@ m.envs[m.env].vars]

\* eval.go:1812-1831: sig is "ok" (all items matched, vals holds vars),
\* "nomatch" (continue MatchLoop) or the way evaluation was cut short
matchItems(m, items, candidate, i, vars) ==
  IF i > Len(items)
  THEN [m |-> m, sig |-> "ok", vals |-> vars, err |-> NoErr]
  ELSE IF i - 1 >= m.hdrs[candidate.ref].len
  THEN [m |-> m, sig |-> "nomatch", vals |-> vars, err |-> NoErr]
  ELSE IF items[i].t = "id"
  THEN Eval("matchItems", <<m, items, candidate, i + 1,
                  MapSet(vars, items[i].name, ArrayElems(m, candidate)[i])>>)
  ELSE LET itemVal == Eval("evalExpr", <<m, items[i]>>)
       IN IF itemVal.sig # "ok"
          THEN [m |-> itemVal.m, sig |-> itemVal.sig, vals |-> vars,
                err |-> itemVal.err]
          ELSE LET c == Compare(ArrayElems(itemVal.m, candidate)[i],
                                itemVal.val)
               IN IF c.err
                  THEN [m |-> itemVal.m, sig |-> "panic", vals |-> vars,
                        err |-> E("GoError", "cannot compare", 0)]
                  ELSE IF ~c.res
                  THEN [m |-> itemVal.m, sig |-> "nomatch", vals |-> vars,
                        err |-> NoErr]
                  ELSE Eval("matchItems", <<itemVal.m, items, candidate, i + 1, vars>>)

\* the result of ev.evalBlock(b) is dropped at eval.go:1803
MatchStringBody(r) == IF r.sig \in {"panic", "cutoff"} THEN r
                      ELSE Ok(r.m, NilValue)

\* the MatchLoop of eval.go:1794-1852, from case i on
matchCases(m, node, candidate, i) ==
  IF i > Len(node.cases) THEN Ok(m, NilValue)
  ELSE LET c == node.cases[i]
           pattern == c.cond
       IN CASE pattern.t = "str" ->
                 IF candidate.tag = "string" /\ candidate.str = pattern.s
                 THEN MatchStringBody(Eval("evalBlock", <<m, c.body>>))
                 ELSE Eval("matchCases", <<m, node, candidate, i + 1>>)
            [] pattern.t = "arr" ->
                 IF candidate.tag # "array"
                 THEN Eval("matchCases", <<m, node, candidate, i + 1>>)
                 ELSE LET it == Eval("matchItems", <<m, pattern.items, candidate, 1,
                                           << >>>>)
                      IN CASE it.sig = "ok" ->
                                LET m1 == MatchBind(pushEnv(it.m), it.vals)
                                    r == Eval("evalStmts", <<m1, c.body.body, 1>>)
                                IN DeferPopEnv(r)
                           [] it.sig = "nomatch" ->
                                Eval("matchCases", <<it.m, node, candidate, i + 1>>)
                           [] OTHER -> Res(it.m, it.sig, NilValue, it.err)
            [] OTHER -> Panic(m, fmtError(pattern, "unsupported match type"))

\* eval.go:1791-1853
match(m, node) ==
  LET candidate == Eval("evalExpr", <<m, node.e>>)
  IN IF candidate.sig # "ok" THEN candidate
     ELSE Eval("matchCases", <<candidate.m, node, candidate.val, 1>>)

\* eval.go:1915-1939; stop is the bool, r carries the error
runForLoopBody(m, node, val, index) ==
  LET m1 == IF node.id # "" THEN setEnv(m, node.id, val) ELSE m
      m2 == IF node.idx # "" THEN setEnv(m1, node.idx, index) ELSE m1
      r == Eval("evalStmts", <<m2, node.body.body, 1>>)
  IN CASE r.sig = "break" -> [stop |-> TRUE, r |-> Ok(r.m, NilValue)]
       [] r.sig = "continue" -> [stop |-> FALSE, r |-> Ok(r.m, NilValue)]
       [] r.sig = "ok" -> [stop |-> FALSE, r |-> Ok(r.m, NilValue)]
       [] OTHER -> [stop |-> TRUE, r |-> r]

\* eval.go:1860-1868, iteration n; the model gives up after MaxLoopIter
forEver(m, node, n) ==
  IF n > MaxLoopIter THEN Res(m, "cutoff", NilValue, NoErr)
  ELSE LET b == Eval("runForLoopBody", <<m, node, NilValue, NilValue>>)
       IN IF b.r.sig # "ok" THEN b.r
          ELSE IF b.stop THEN b.r
          ELSE Eval("forEver", <<b.r.m, node, n + 1>>)

\* eval.go:1876-1885, from index i - 1 on; h is the slice header the range
\* statement copied when the loop began
forArray(m, node, h, i) ==
  IF i > h.len THEN Ok(m, NilValue)
  ELSE LET b == Eval("runForLoopBody", <<m, node, m.backs[h.b][h.off + i], NumV(i - 1)>>)
       IN IF b.r.sig # "ok" THEN b.r
          ELSE IF b.stop THEN b.r
          ELSE Eval("forArray", <<b.r.m, node, h, i + 1>>)

\* eval.go:1890-1900, iteration n.  current takes at most IntMod values, so
\* a loop that has not ended after IntMod iterations never ends
forRange(m, node, ref, n) ==
  IF done(m.ranges[ref]) THEN Ok(m, NilValue)
  ELSE IF n > IntMod THEN Res(m, "cutoff", NilValue, NoErr)
  ELSE LET i == NumV(m.ranges[ref].current)
           b == Eval("runForLoopBody", <<m, node, i, i>>)
       IN IF b.r.sig # "ok" THEN b.r
          ELSE IF b.stop THEN b.r
          ELSE Eval("forRange", <<[b.r.m EXCEPT !.ranges[ref] = next(@)], node, ref,
                        n + 1>>)

\* what eval.go:1907 keeps of runForLoopBody's results: nothing but a panic
ForMapBody(b) == IF b.r.sig \in {"panic", "cutoff"} THEN b.r
                 ELSE Ok(b.r.m, NilValue)

\* eval.go:1905-1908, from the i-th entry on; keys are the entries in the
\* order this range yields them
forMap(m, node, ref, keys, i) ==
  IF i > Len(keys) THEN Ok(m, NilValue)
  ELSE LET b == ForMapBody(Eval("runForLoopBody", <<m, node, StrV(keys[i]),
                                          MapGet(m.maps[ref], keys[i])>>))
       IN IF b.sig # "ok" THEN b
          ELSE Eval("forMap", <<b.m, node, ref, keys, i + 1>>)

\* eval.go:1855-1913
forLoop(m, node) ==
  IF node.e.t = "none" THEN DeferPopEnv(Eval("forEver", <<pushEnv(m), node, 1>>))
  ELSE LET val == Eval("evalExpr", <<m, node.e>>)
           v == val.val
           m1 == pushEnv(val.m)
       IN IF val.sig # "ok" THEN val
          ELSE CASE v.tag = "array" ->
                      DeferPopEnv(Eval("forArray", <<m1, node, m1.hdrs[v.ref], 1>>))
                 [] v.tag = "range" -> DeferPopEnv(Eval("forRange", <<m1, node, v.ref, 1>>))
                 [] v.tag = "map" ->
                      LET es == MapOrder(m1, m1.maps[v.ref])
                      IN DeferPopEnv(Eval("forMap", <<m1, node, v.ref,
                                            [i \in 1..Len(es) |-> es[i].k], 1>>))
                 [] OTHER -> Panic(val.m, fmtError(node.e, "is not iterable"))

\* the method op applied to the evaluator and arguments a
Eval(op, a) ==
  CASE op = "evalExpr" -> evalExpr(a[1], a[2])
    [] op = "evalExprs" -> evalExprs(a[1], a[2], a[3], a[4])
    [] op = "evalMapItems" -> evalMapItems(a[1], a[2], a[3], a[4])
    [] op = "evalBinaryExpr" -> evalBinaryExpr(a[1], a[2])
    [] op = "evalAssignment" -> evalAssignment(a[1], a[2])
    [] op = "evalStmt" -> evalStmt(a[1], a[2])
    [] op = "evalStmts" -> evalStmts(a[1], a[2], a[3])
    [] op = "evalBlock" -> evalBlock(a[1], a[2])
    [] op = "fn" -> fn(a[1], a[2], a[3], a[4])
    [] op = "match" -> match(a[1], a[2])
    [] op = "matchCases" -> matchCases(a[1], a[2], a[3], a[4])
    [] op = "matchItems" -> matchItems(a[1], a[2], a[3], a[4], a[5])
    [] op = "forLoop" -> forLoop(a[1], a[2])
    [] op = "forEver" -> forEver(a[1], a[2], a[3])
    [] op = "forArray" -> forArray(a[1], a[2], a[3], a[4])
    [] op = "forRange" -> forRange(a[1], a[2], a[3], a[4])
    [] op = "forMap" -> forMap(a[1], a[2], a[3], a[4], a[5])
    [] op = "runForLoopBody" -> runForLoopBody(a[1], a[2], a[3], a[4])

RECURSIVE evalProgramStmts(_, _, _)
\* the loop of eval.go:1384-1394
evalProgramStmts(m, stmts, i) ==
  IF i > Len(stmts) THEN Ok(m, NilValue)
  ELSE IF stmts[i].t = "section"
  THEN evalProgramStmts(
         [m EXCEPT !.sections = (stmts[i].label :> stmts[i]) @@ m.sections],
         stmts, i + 1)
  ELSE LET r == Eval("evalStmt", <<m, stmts[i]>>)
       IN IF r.sig # "ok" THEN r ELSE evalProgramStmts(r.m, stmts, i + 1)

\* eval.go:1376-1397
evalProgram(m, program) == evalProgramStmts(pushFrame(m, 0), program, 1)

\* eval.go:1253-1279
NewEvaluator(program) == evalProgram(NewMachine, program).m

\* eval.go:1400-1410: the checks of EvalSection and the setting of the marker
EvalSectionEnter(m, name) ==
  IF m.section.t # "none"
  THEN Panic(m, E("GoString", "cannot nest sections", 0))
  ELSE IF name \notin DOMAIN m.sections
  THEN Panic(m, E("GoError", "couldn't find section", 0))
  ELSE Ok([m EXCEPT !.section = m.sections[name]], NilValue)

\* variant: the marker is cleared only when the section does not panic
DeferSectionOnSuccess(r) ==
  IF r.sig = "panic" THEN r ELSE [r EXCEPT !.m.section = [t |-> "none"]]

\* the deferred function of eval.go:1411-1414
DeferSection(r) == [r EXCEPT !.m.section = [t |-> "none"]]

\* eval.go:1411-1424: the evaluation of the body and the deferred reset
EvalSectionBody(m) ==
  LET r == Eval("evalStmt", <<m, m.section.body>>)
  IN DeferSection(IF r.sig = "return" THEN Ok(r.m, r.val) ELSE r)

\* eval.go:1411-1424 after the checks with outcome e
EvalSectionAfter(e) == IF e.sig # "ok" THEN e ELSE EvalSectionBody(e.m)

\* eval.go:1400-1424: the whole call
EvalSection(m, name) == EvalSectionAfter(EvalSectionEnter(m, name))

\* eval.go:1427-1430
HasSection(m, name) == name \in DOMAIN m.sections

\* unicode.IsSpace for the characters of the model
IsSpace(c) == c \in {" ", "\n", "\t", "\r"}

\* strings.TrimSpace
TrimSpace(s) ==
  LET keep == {i \in 1..Len(s) : ~IsSpace(s[i])}
  IN IF keep = {} THEN << >>
     ELSE SubSeq(s, CHOOSE i \in keep : \A j \in keep : i <= j,
                 CHOOSE i \in keep : \A j \in keep : i >= j)

RECURSIVE Split(_, _)
\* strings.Split(s, sep) for a one-character sep
Split(s, sep) ==
  LET at == {i \in 1..Len(s) : s[i] = sep}
  IN IF at = {} THEN <<s>>
     ELSE LET i == CHOOSE i \in at : \A j \in at : i <= j
          IN <<SubSeq(s, 1, i - 1)>> \o Split(SubSeq(s, i + 1, Len(s)), sep)

\* eval.go:1364-1374
ReadInput(m, input) ==
  LET parts == Split(TrimSpace(input), "\n")
      a == AppendAll(m, EmptyHdr, [i \in 1..Len(parts) |-> StrV(parts[i])], 1)
      lines == NewArray(a.m, a.h)
  IN setEnv(setEnv(lines.m, "input", StrV(input)), "lines", lines.val)

(***************************************************************************)
(* The lexer (unnamed/part_007).  A source is a sequence of one-character  *)
(* strings, all ASCII, so a rune is one byte wide; pos, tokenStart and a   *)
(* token's Pos count bytes from 0 as in Go.                                *)
(***************************************************************************)
\* utf8.RuneError, which utf8.DecodeRuneInString returns with size 0 for the
\* empty string
RuneError == "RuneError"

Letters == {"a", "b", "c", "d", "e", "f", "g", "h", "i", "j", "k", "l", "m",
            "n", "o", "p", "q", "r", "s", "t", "u", "v", "w", "x", "y", "z"}
Digits10 == {"0", "1", "2", "3", "4", "5", "6", "7", "8", "9"}

\* unicode.IsLetter, unicode.IsDigit and unicode.IsNumber on these sources
IsLetter(c) == c \in Letters
IsDigit(c) == c \in Digits10

\* part_007:51-55
Token(tag, pos, len) == [tag |-> tag, pos |-> pos, len |-> len]
ZeroToken == Token("EOF", 0, 0)

\* part_007:65-72
NewLexer(src) == [src |-> src, pos |-> 0, line |-> 1, tokenStart |-> 0]

\* part_007:74-76
simpleToken(lex, tag) == Token(tag, lex.tokenStart, 0)

\* part_007:78-80
stringToken(lex, tag, start) == Token(tag, start, lex.pos - start)

\* part_007:82-85
lexFmtError(lex, msg) == E("Lex", msg, lex.line)

\* part_007:87-90
peek(lex) ==
  IF lex.pos < Len(lex.src) THEN lex.src[lex.pos + 1] ELSE RuneError

\* part_007:92-102; at the end of the source the decoded size is 0 and pos
\* stays where it is
advance(lex) ==
  [lex EXCEPT !.line = IF lex.pos > 0 /\ lex.src[lex.pos] = "\n"
                       THEN @ + 1 ELSE @,
              !.pos = IF lex.pos < Len(lex.src) THEN @ + 1 ELSE @]

\* part_007:103-110
consume(lex, expected) ==
  IF peek(lex) # expected
  THEN [lex |-> lex, err |-> lexFmtError(lex, "expected %q but saw %q")]
  ELSE [lex |-> [lex EXCEPT !.pos = @ + 1], err |-> NoErr]

\* part_007:118-123, the loop over a comment; ret says skipWhitespace
\* returns from inside it
RECURSIVE skipComment(_)
skipComment(lex) ==
  IF peek(lex) = "\n" THEN [lex |-> lex, ret |-> FALSE]
  ELSE LET a == advance(lex)
       IN IF a.pos >= Len(a.src) THEN [lex |-> a, ret |-> TRUE]
          ELSE skipComment(a)

\* part_007:112-128
RECURSIVE skipWhitespace(_)
skipWhitespace(lex) ==
  CASE peek(lex) \in {" ", "\n", "\r"} -> skipWhitespace(advance(lex))
    [] peek(lex) = "#" ->
         LET c == skipComment(lex)
         IN IF c.ret THEN c.lex ELSE skipWhitespace(c.lex)
    [] OTHER -> lex

\* part_007:132-139
RECURSIVE identifierRun(_)
identifierRun(lex) ==
  LET c == peek(lex)
  IN IF IsLetter(c) \/ IsDigit(c) \/ c = "_" THEN identifierRun(advance(lex))
     ELSE lex

\* part_007:142-165
Keywords ==
  {<<<<"v", "a", "r">>, "Var">>, <<<<"f", "o", "r">>, "For">>,
   <<<<"i", "n">>, "In">>, <<<<"i", "f">>, "If">>,
   <<<<"r", "e", "t", "u", "r", "n">>, "Return">>,
   <<<<"c", "o", "n", "t", "i", "n", "u", "e">>, "Continue">>,
   <<<<"b", "r", "e", "a", "k">>, "Break">>,
   <<<<"m", "a", "t", "c", "h">>, "Match">>,
   <<<<"e", "l", "s", "e">>, "Else">>, <<<<"f", "n">>, "Fn">>,
   <<<<"n", "i", "l">>, "Nil">>}

\* part_007:130-168; the result carries the lexer and the token
identifier(lex) ==
  LET start == lex.pos
      l2 == identifierRun(lex)
      str == SubSeq(l2.src, start + 1, l2.pos)
  IN [lex |-> l2,
      tok |-> IF \E k \in Keywords : k[1] = str
              THEN simpleToken(l2, (CHOOSE k \in Keywords : k[1] = str)[2])
              ELSE stringToken(l2, "Identifier", start)]

\* part_007:171-173, `for lex.peek() != '\'' { lex.advance() }`: at the end
\* of the source peek yields RuneError and advance moves nothing, so the
\* loop runs forever (hang)
RECURSIVE stringRun(_)
stringRun(lex) ==
  IF peek(lex) = "'" THEN [lex |-> lex, hang |-> FALSE]
  ELSE IF lex.pos >= Len(lex.src) THEN [lex |-> lex, hang |-> TRUE]
  ELSE stringRun(advance(lex))

\* the outcome of a lexer call: sig is "ok", "error" or "hang" (the call
\* never returns)
LexOk(lex, tok) == [lex |-> lex, tok |-> tok, err |-> NoErr, sig |-> "ok"]
LexErr(lex, err) ==
  [lex |-> lex, tok |-> ZeroToken, err |-> err, sig |-> "error"]
LexHang(lex) == [lex |-> lex, tok |-> ZeroToken, err |-> NoErr, sig |-> "hang"]

\* part_007:170-180
lexString(lex) ==
  LET s == stringRun(lex)
  IN IF s.hang THEN LexHang(s.lex)
     ELSE LET t == stringToken(s.lex, "Str", s.lex.tokenStart + 1)
              c == consume(s.lex, "'")
          IN IF c.err # NoErr THEN LexErr(c.lex, c.err) ELSE LexOk(c.lex, t)

\* part_007:182-187
RECURSIVE number(_)
number(lex) ==
  IF IsDigit(peek(lex)) THEN number(advance(lex))
  ELSE [lex |-> lex, tok |-> stringToken(lex, "Num", lex.tokenStart)]

\* part_007:211-218, 221-239: the characters that are a token by themselves
SingleTokens ==
  {<<":", "Colon">>, <<"{", "LCurly">>, <<"}", "RCurly">>,
   <<"(", "LParen">>, <<")", "RParen">>, <<"*", "Star">>, <<"+", "Plus">>,
   <<"%", "Percent">>, <<",", "Comma">>, <<"[", "LSquare">>,
   <<"]", "RSquare">>, <<"-", "Minus">>, <<"/", "Slash">>}

\* part_007:241-276: first character, second character, the token of the
\* pair, the token of the first character alone ("" if there is none)
DoubleTokens ==
  {<<"<", "=", "LessEqual", "Less">>, <<">", "=", "GreaterEqual", "Greater">>,
   <<"=", "=", "EqualEqual", "Equal">>, <<"!", "=", "BangEqual", "">>,
   <<"&", "&", "AmpAmp", "">>, <<"|", "|", "PipePipe", "">>}

\* part_007:189-277
NextToken(lex0) ==
  IF lex0.pos >= Len(lex0.src) THEN LexOk(lex0, simpleToken(lex0, "EOF"))
  ELSE LET l1 == skipWhitespace(lex0)
           r == peek(l1)
           l2 == [l1 EXCEPT !.tokenStart = l1.pos]
           l3 == advance(l2)
           unexpected == LexErr(l3, lexFmtError(l3, "unexpected character"))
       IN CASE IsLetter(r) ->
                 LET i == identifier(l2) IN LexOk(i.lex, i.tok)
            [] IsDigit(r) -> LET n == number(l2) IN LexOk(n.lex, n.tok)
            [] r = "'" -> lexString(l3)
            [] \E s \in SingleTokens : s[1] = r ->
                 LexOk(l3, simpleToken(l3,
                             (CHOOSE s \in SingleTokens : s[1] = r)[2]))
            [] \E d \in DoubleTokens : d[1] = r ->
                 LET d == CHOOSE e \in DoubleTokens : e[1] = r
                 IN IF peek(l3) = d[2]
                    THEN LexOk(advance(l3), simpleToken(l3, d[3]))
                    ELSE IF d[4] # "" THEN LexOk(l3, simpleToken(l3, d[4]))
                    ELSE unexpected
            [] OTHER -> unexpected

\* part_007:278-280
GetString(lex, token) ==
  SubSeq(lex.src, token.pos + 1, token.pos + token.len)

\* part_007:285-293, the loop: the line breaks among the first n characters
CountNewlines(src, n) == Cardinality({i \in 1..n : src[i] = "\n"})

\* part_007:282-296; the line only
GetLineAndCol(lex, token) ==
  1 + CountNewlines(lex.src, IF token.pos < Len(lex.src) THEN token.pos
                             ELSE Len(lex.src))

(***************************************************************************)
(* The parser (parser.go:1-375).  A Parser is the record of its fields     *)
(* lex, token and prevToken.  Every method yields [p, node, err, sig]: the *)
(* parser afterwards, what the method returns, and sig "ok", "panic" (with *)
(* err) or "hang".  A node takes the line of its token as ast.go:570-761   *)
(* holds it, by value.                                                     *)
(***************************************************************************)
PrecNone == 0
PrecAssign == 1
PrecLogical == 2
PrecCompare == 3
PrecSum == 4
PrecProduct == 5
PrecHighest == 6

POk(p, node) == [p |-> p, node |-> node, err |-> NoErr, sig |-> "ok"]
PPanic(p, err) == [p |-> p, node |-> NoNode, err |-> err, sig |-> "panic"]

\* parser.go:27-30
NewParser(lex) == [lex |-> lex, token |-> ZeroToken, prevToken |-> ZeroToken]

\* parser.go:32-34
atEnd(p) == p.token.tag = "EOF"

\* parser.go:36-40
parseFmtError(p, msg) == E("Parse", msg, GetLineAndCol(p.lex, p.token))

\* the line of a token, for the node that holds it
TokenLine(p, token) == GetLineAndCol(p.lex, token)

\* the string GetString yields, as the name of a variable or a section
RECURSIVE Name(_)
Name(cs) == IF cs = << >> THEN "" ELSE Head(cs) \o Name(Tail(cs))

\* parser.go:43-44: the parser after NextToken had the outcome r; an error
\* of the lexer ends the parse
tokenTaken(p, r) ==
  CASE r.sig = "ok" ->
         POk([lex |-> r.lex, token |-> r.tok, prevToken |-> p.token], NoNode)
    [] r.sig = "error" -> PPanic([p EXCEPT !.lex = r.lex], r.err)
    [] r.sig = "hang" ->
         [p |-> [p EXCEPT !.lex = r.lex], node |-> NoNode, err |-> NoErr,
          sig |-> "hang"]

\* parser.go:42-45
parseAdvance(p) == tokenTaken(p, NextToken(p.lex))

\* parser.go:62-63: consume returns the token that a, the advance, left
\* behind
prevTokenOf(a) == IF a.sig # "ok" THEN a ELSE POk(a.p, a.p.prevToken)

\* parser.go:47-64, expected a set of tags; node is the token consumed
parseConsume(p, expected) ==
  IF p.token.tag \in expected THEN prevTokenOf(parseAdvance(p))
  ELSE PPanic(p, parseFmtError(p, "expected %s but saw %s"))

\* strconv.Atoi on a run of digits, for an int of IntBits bits
RECURSIVE DigitsValue(_)
DigitsValue(cs) ==
  IF cs = << >> THEN 0
  ELSE 10 * DigitsValue(SubSeq(cs, 1, Len(cs) - 1))
       + (CHOOSE d \in 0..9 : DigitChars[d + 1] = cs[Len(cs)])

Atoi(cs) ==
  IF DigitsValue(cs) > IntMax
  THEN [err |-> TRUE, num |-> IntMax]
  ELSE [err |-> FALSE, num |-> DigitsValue(cs)]

\* parser.go:192-205: the level of a binary operator, PrecNone for a token
\* that is none
OpLevel(tag) ==
  CASE tag = "Equal" -> PrecAssign
    [] tag = "AmpAmp" -> PrecLogical
    [] tag \in {"EqualEqual", "Greater", "GreaterEqual", "Less", "BangEqual"}
         -> PrecCompare
    [] tag \in {"Plus", "Minus"} -> PrecSum
    [] tag \in {"Star", "Slash", "Percent"} -> PrecProduct
    [] OTHER -> PrecNone

\* the operator of an ExprBinary as the evaluator's switch names it
OpSymbol(tag) ==
  CASE tag = "Equal" -> "=" [] tag = "AmpAmp" -> "&&"
    [] tag = "EqualEqual" -> "==" [] tag = "Greater" -> ">"
    [] tag = "GreaterEqual" -> ">=" [] tag = "Less" -> "<"
    [] tag = "BangEqual" -> "!=" [] tag = "Plus" -> "+"
    [] tag = "Minus" -> "-" [] tag = "Star" -> "*"
    [] tag = "Slash" -> "/" [] tag = "Percent" -> "%"
    [] tag = "LSquare" -> "["

\* a call of a method of Parser: op names the method, a holds the parser
\* and the arguments
RECURSIVE ParseRule(_, _)

\* a consume after the step that yielded r, which is handed on when it failed
thenConsume(r, expected) ==
  IF r.sig # "ok" THEN r ELSE ParseRule("consume", <<r.p, expected>>)

\* parser.go:272-276
parseString(p) ==
  LET c == ParseRule("consume", <<p, {"Str"}>>)
  IN IF c.sig # "ok" THEN c
     ELSE POk(c.p, At(Str(GetString(c.p.lex, c.node)),
                      TokenLine(c.p, c.node)))

\* parser.go:278-286
parseNumber(p) ==
  LET c == ParseRule("consume", <<p, {"Num"}>>)
  IN IF c.sig # "ok" THEN c
     ELSE LET n == Atoi(GetString(c.p.lex, c.node))
          IN IF n.err
             THEN PPanic(c.p, parseFmtError(c.p, "value out of range"))
             ELSE POk(c.p, At(Num(n.num), TokenLine(c.p, c.node)))

\* parser.go:288-292
parseIdentifier(p) ==
  LET c == ParseRule("consume", <<p, {"Identifier"}>>)
  IN IF c.sig # "ok" THEN c
     ELSE POk(c.p, At(Id(Name(GetString(c.p.lex, c.node))),
                      TokenLine(c.p, c.node)))

\* parser.go:297-302, the loop over the items of an array literal
RECURSIVE arrayItems(_, _)
arrayItems(p, items) ==
  IF p.token.tag = "RSquare" THEN POk(p, items)
  ELSE LET e == ParseRule("expression", <<p>>)
       IN IF e.sig # "ok" THEN e
          ELSE LET c == IF e.p.token.tag = "Comma"
                        THEN ParseRule("consume", <<e.p, {"Comma"}>>) ELSE POk(e.p, NoNode)
               IN IF c.sig # "ok" THEN c
                  ELSE arrayItems(c.p, Append(items, e.node))

\* parser.go:294-305
array(p) ==
  LET o == ParseRule("consume", <<p, {"LSquare"}>>)
  IN IF o.sig # "ok" THEN o
     ELSE LET its == arrayItems(o.p, << >>)
          IN IF its.sig # "ok" THEN its
             ELSE LET c == ParseRule("consume", <<its.p, {"RSquare"}>>)
                  IN IF c.sig # "ok" THEN c
                     ELSE POk(c.p, At(Arr(its.node), TokenLine(o.p, o.node)))

\* parser.go:310-319, the loop over the entries of a map literal
RECURSIVE hashMapItems(_, _)
hashMapItems(p, items) ==
  IF p.token.tag = "RCurly" THEN POk(p, items)
  ELSE LET k == ParseRule("consume", <<p, {"Identifier", "Num"}>>)
           c == thenConsume(k, {"Colon"})
           e == IF c.sig # "ok" THEN c ELSE ParseRule("expression", <<c.p>>)
           s == IF e.sig = "ok" /\ e.p.token.tag = "Comma"
                THEN ParseRule("consume", <<e.p, {"Comma"}>>) ELSE e
       IN CASE c.sig # "ok" -> c
            [] e.sig # "ok" -> e
            [] s.sig # "ok" -> s
            [] OTHER ->
                 hashMapItems(s.p, Append(items,
                                          [k |-> GetString(k.p.lex, k.node),
                                           v |-> e.node]))

\* parser.go:307-322
hashMap(p) ==
  LET o == ParseRule("consume", <<p, {"LCurly"}>>)
  IN IF o.sig # "ok" THEN o
     ELSE LET its == hashMapItems(o.p, << >>)
          IN IF its.sig # "ok" THEN its
             ELSE LET c == ParseRule("consume", <<its.p, {"RCurly"}>>)
                  IN IF c.sig # "ok" THEN c
                     ELSE POk(c.p, At(MapLit(its.node), TokenLine(o.p, o.node)))

\* parser.go:336-342, the loop over the parameters of a fn literal
RECURSIVE fnParams(_, _)
fnParams(p, args) ==
  IF p.token.tag = "RParen" THEN POk(p, args)
  ELSE LET i == ParseRule("consume", <<p, {"Identifier"}>>)
       IN IF i.sig # "ok" THEN i
          ELSE LET s == IF i.p.token.tag = "Comma"
                        THEN ParseRule("consume", <<i.p, {"Comma"}>>) ELSE POk(i.p, NoNode)
               IN IF s.sig # "ok" THEN s
                  ELSE fnParams(s.p, Append(args,
                                            Name(GetString(i.p.lex, i.node))))

\* parser.go:324-355; a step after one that failed is that failure
parseFn(p) ==
  LET f == ParseRule("consume", <<p, {"Fn"}>>)
      named == f.sig = "ok" /\ f.p.token.tag = "Identifier"
      i == IF named THEN ParseRule("consume", <<f.p, {"Identifier"}>>) ELSE f
      ident == IF named THEN Name(GetString(i.p.lex, i.node)) ELSE Anonymous
      o == thenConsume(i, {"LParen"})
      args == IF o.sig # "ok" THEN o ELSE fnParams(o.p, << >>)
      c == thenConsume(args, {"RParen"})
      b == IF c.sig # "ok" THEN c ELSE ParseRule("block", <<c.p>>)
  IN CASE c.sig # "ok" -> c
       [] b.sig # "ok" -> b
       [] OTHER -> POk(b.p, At(Func(ident, args.node, b.node),
                               TokenLine(f.p, f.node)))

\* parser.go:245-270
primary(p) ==
  CASE p.token.tag = "Str" -> parseString(p)
    [] p.token.tag = "Num" -> parseNumber(p)
    [] p.token.tag = "Nil" ->
         LET c == ParseRule("consume", <<p, {"Nil"}>>)
         IN IF c.sig # "ok" THEN c
            ELSE POk(c.p, At(Nil, TokenLine(c.p, c.node)))
    [] p.token.tag = "Identifier" -> parseIdentifier(p)
    [] p.token.tag = "LSquare" -> ParseRule("array", <<p>>)
    [] p.token.tag = "LCurly" -> ParseRule("hashMap", <<p>>)
    [] p.token.tag = "LParen" ->
         LET o == ParseRule("consume", <<p, {"LParen"}>>)
         IN IF o.sig # "ok" THEN o
            ELSE LET e == ParseRule("expression", <<o.p>>)
                 IN IF e.sig # "ok" THEN e
                    ELSE LET c == ParseRule("consume", <<e.p, {"RParen"}>>)
                         IN IF c.sig # "ok" THEN c ELSE POk(c.p, e.node)
    [] p.token.tag = "Fn" -> ParseRule("parseFn", <<p>>)
    [] OTHER -> PPanic(p, parseFmtError(p, "expected a value but found %s"))

\* parser.go:224-232, the loop over the arguments of a call
RECURSIVE callArgs(_, _)
callArgs(p, args) ==
  IF p.token.tag = "RParen" THEN POk(p, args)
  ELSE LET e == ParseRule("expression", <<p>>)
       IN IF e.sig # "ok" THEN e
          ELSE IF e.p.token.tag = "Comma"
          THEN LET c == ParseRule("consume", <<e.p, {"Comma"}>>)
               IN IF c.sig # "ok" THEN c
                  ELSE callArgs(c.p, Append(args, e.node))
          ELSE POk(e.p, Append(args, e.node))

\* parser.go:217-243
unary(p) ==
  LET identToken == p.token
      lhs == primary(p)
  IN IF lhs.sig # "ok" THEN lhs
     ELSE CASE lhs.p.token.tag = "LParen" ->
                 LET o == ParseRule("consume", <<lhs.p, {"LParen"}>>)
                 IN IF o.sig # "ok" THEN o
                    ELSE LET args == ParseRule("callArgs", <<o.p, << >> >>)
                         IN IF args.sig # "ok" THEN args
                            ELSE LET c == ParseRule("consume", <<args.p, {"RParen"}>>)
                                 IN IF c.sig # "ok" THEN c
                                    ELSE POk(c.p, At(Call(lhs.node, args.node),
                                                     TokenLine(p, identToken)))
            [] lhs.p.token.tag = "LSquare" ->
                 LET o == ParseRule("consume", <<lhs.p, {"LSquare"}>>)
                 IN IF o.sig # "ok" THEN o
                    ELSE LET index == ParseRule("expression", <<o.p>>)
                         IN IF index.sig # "ok" THEN index
                            ELSE LET c == ParseRule("consume", <<index.p, {"RSquare"}>>)
                                 IN IF c.sig # "ok" THEN c
                                    ELSE POk(c.p, At(Bin("[", lhs.node, index.node),
                                                     TokenLine(o.p, o.node)))
            [] OTHER -> lhs

\* parser.go:189-214, the loop that takes operators after lhs
RECURSIVE binaryLoop(_, _, _)
binaryLoop(p, prec, lhs) ==
  LET op == p.token
      opLevel == OpLevel(op.tag)
  IN IF opLevel = PrecNone THEN POk(p, lhs)
     ELSE IF opLevel >= prec
     THEN LET a == ParseRule("advance", <<p>>)
          IN IF a.sig # "ok" THEN a
             ELSE LET rhs == ParseRule("expressionWithPrec", <<a.p, prec + 1>>)
                  IN IF rhs.sig # "ok" THEN rhs
                     ELSE binaryLoop(rhs.p, prec,
                                     At(Bin(OpSymbol(op.tag), lhs, rhs.node),
                                        TokenLine(p, op)))
     ELSE POk(p, lhs)

\* parser.go:182-215
RECURSIVE expressionWithPrec(_, _)
expressionWithPrec(p, prec) ==
  IF prec = PrecHighest THEN unary(p)
  ELSE LET lhs == expressionWithPrec(p, prec + 1)
       IN IF lhs.sig # "ok" THEN lhs
          ELSE binaryLoop(lhs.p, prec, lhs.node)

\* parser.go:178-180
expression(p) == expressionWithPrec(p, PrecNone)

\* parser.go:122-129
varDecl(p) ==
  LET v == ParseRule("consume", <<p, {"Var"}>>)
      i == thenConsume(v, {"Identifier"})
      q == thenConsume(i, {"Equal"})
      e == IF q.sig # "ok" THEN q ELSE ParseRule("expression", <<q.p>>)
  IN CASE q.sig # "ok" -> q
       [] e.sig # "ok" -> e
       [] OTHER -> POk(e.p, Var(Name(GetString(i.p.lex, i.node)), e.node))

\* parser.go:131-145
parseForLoop(p) ==
  LET f == ParseRule("consume", <<p, {"For"}>>)
      i == thenConsume(f, {"Identifier"})
      two == i.sig = "ok" /\ i.p.token.tag = "Comma"
      s == IF two THEN ParseRule("consume", <<i.p, {"Comma"}>>) ELSE i
      j == IF two THEN thenConsume(s, {"Identifier"}) ELSE i
      n == thenConsume(j, {"In"})
      val == IF n.sig # "ok" THEN n ELSE ParseRule("expression", <<n.p>>)
      body == IF val.sig # "ok" THEN val ELSE ParseRule("block", <<val.p>>)
  IN CASE n.sig # "ok" -> n
       [] val.sig # "ok" -> val
       [] body.sig # "ok" -> body
       [] OTHER -> POk(body.p,
                       For(Name(GetString(i.p.lex, i.node)),
                           IF two THEN Name(GetString(j.p.lex, j.node)) ELSE "",
                           val.node, body.node))

\* parser.go:147-161
RECURSIVE ifStmt(_)
ifStmt(p) ==
  LET f == ParseRule("consume", <<p, {"If"}>>)
      condition == IF f.sig # "ok" THEN f ELSE ParseRule("expression", <<f.p>>)
      body == IF condition.sig # "ok" THEN condition
              ELSE ParseRule("block", <<condition.p>>)
      else == body.sig = "ok" /\ body.p.token.tag = "Else"
      e == IF else THEN ParseRule("consume", <<body.p, {"Else"}>>) ELSE body
      elseBody == CASE ~else \/ e.sig # "ok" -> e
                    [] else /\ e.sig = "ok" /\ e.p.token.tag = "If" ->
                         ifStmt(e.p)
                    [] OTHER -> ParseRule("block", <<e.p>>)
  IN CASE condition.sig # "ok" -> condition
       [] body.sig # "ok" -> body
       [] elseBody.sig # "ok" -> elseBody
       [] OTHER -> POk(elseBody.p,
                       If(condition.node, body.node,
                          IF else THEN elseBody.node ELSE NoNode))

\* parser.go:168-173, the loop over the cases of a match
RECURSIVE matchCases2(_, _)
matchCases2(p, cases) ==
  IF p.token.tag = "RCurly" THEN POk(p, cases)
  ELSE LET cond == ParseRule("expression", <<p>>)
           c == thenConsume(cond, {"Colon"})
           body == IF c.sig # "ok" THEN c ELSE ParseRule("block", <<c.p>>)
       IN CASE cond.sig # "ok" -> cond
            [] body.sig # "ok" -> body
            [] OTHER -> matchCases2(body.p,
                                    Append(cases, Case(cond.node, body.node)))

\* parser.go:163-176
matchStmt(p) ==
  LET m == ParseRule("consume", <<p, {"Match"}>>)
      val == IF m.sig # "ok" THEN m ELSE ParseRule("expression", <<m.p>>)
      o == thenConsume(val, {"LCurly"})
      cases == IF o.sig # "ok" THEN o
               ELSE ParseRule("matchCases2", <<o.p, << >> >>)
      c == thenConsume(cases, {"RCurly"})
  IN CASE val.sig # "ok" -> val
       [] cases.sig # "ok" -> cases
       [] c.sig # "ok" -> c
       [] OTHER -> POk(c.p, Match(val.node, cases.node))

\* parser.go:93-120
statement(p) ==
  CASE p.token.tag = "Var" -> ParseRule("varDecl", <<p>>)
    [] p.token.tag = "For" -> ParseRule("parseForLoop", <<p>>)
    [] p.token.tag = "If" -> ParseRule("ifStmt", <<p>>)
    [] p.token.tag = "Return" ->
         LET c == ParseRule("consume", <<p, {"Return"}>>)
         IN IF c.sig # "ok" THEN c
            ELSE LET e == ParseRule("expression", <<c.p>>)
                 IN IF e.sig # "ok" THEN e ELSE POk(e.p, Return(e.node))
    [] p.token.tag = "Continue" ->
         LET c == ParseRule("consume", <<p, {"Continue"}>>)
         IN IF c.sig # "ok" THEN c ELSE POk(c.p, Continue)
    [] p.token.tag = "Break" ->
         LET c == ParseRule("consume", <<p, {"Break"}>>)
         IN IF c.sig # "ok" THEN c ELSE POk(c.p, Break)
    [] p.token.tag = "Match" -> ParseRule("matchStmt", <<p>>)
    [] p.token.tag = "LCurly" -> ParseRule("block", <<p>>)
    [] OTHER ->
         LET e == ParseRule("expression", <<p>>)
         IN IF e.sig # "ok" THEN e ELSE POk(e.p, ExprStmt(e.node))

\* parser.go:86-88, the loop over the statements of a block
RECURSIVE blockStmts(_, _)
blockStmts(p, stmts) ==
  IF p.token.tag = "RCurly" THEN POk(p, stmts)
  ELSE LET s == statement(p)
       IN IF s.sig # "ok" THEN s
          ELSE blockStmts(s.p, Append(stmts, s.node))

\* parser.go:82-91
block(p) ==
  LET o == ParseRule("consume", <<p, {"LCurly"}>>)
  IN IF o.sig # "ok" THEN o
     ELSE LET stmts == blockStmts(o.p, << >>)
          IN IF stmts.sig # "ok" THEN stmts
             ELSE LET c == ParseRule("consume", <<stmts.p, {"RCurly"}>>)
                  IN IF c.sig # "ok" THEN c
                     ELSE POk(c.p, At(Block(stmts.node), TokenLine(o.p, o.node)))

\* parser.go:66-80
section(p) ==
  LET i == ParseRule("consume", <<p, {"Identifier"}>>)
  IN IF i.sig # "ok" THEN i
     ELSE LET c == ParseRule("consume", <<i.p, {"Colon"}>>)
              ident == Name(GetString(i.p.lex, i.node))
              body == IF c.p.token.tag = "LCurly"
                      THEN ParseRule("block", <<c.p>>)
                      ELSE ParseRule("expression", <<c.p>>)
          IN IF c.sig # "ok" THEN c
             ELSE IF body.sig # "ok" THEN body
             ELSE POk(body.p,
                      Section(ident, IF c.p.token.tag = "LCurly" THEN body.node
                                     ELSE ExprStmt(body.node)))

\* parser.go:359-372, the loop over the sections and fn literals
RECURSIVE parseSections(_, _)
parseSections(p, sections) ==
  IF atEnd(p) THEN POk(p, sections)
  ELSE CASE p.token.tag = "Identifier" ->
              LET s == ParseRule("section", <<p>>)
              IN IF s.sig # "ok" THEN s
                 ELSE parseSections(s.p, Append(sections, s.node))
         [] p.token.tag = "Fn" ->
              LET f == ParseRule("parseFn", <<p>>)
              IN IF f.sig # "ok" THEN f
                 ELSE parseSections(f.p, Append(sections, ExprStmt(f.node)))
         [] OTHER -> ParseRule("consume", <<p, {"Identifier", "Fn"}>>)

ParseRule(op, a) ==
  CASE op = "expression" -> expression(a[1])
    [] op = "expressionWithPrec" -> expressionWithPrec(a[1], a[2])
    [] op = "block" -> block(a[1])
    [] op = "consume" -> parseConsume(a[1], a[2])
    [] op = "advance" -> parseAdvance(a[1])
    [] op = "array" -> array(a[1])
    [] op = "hashMap" -> hashMap(a[1])
    [] op = "parseFn" -> parseFn(a[1])
    [] op = "callArgs" -> callArgs(a[1], a[2])
    [] op = "varDecl" -> varDecl(a[1])
    [] op = "parseForLoop" -> parseForLoop(a[1])
    [] op = "ifStmt" -> ifStmt(a[1])
    [] op = "matchStmt" -> matchStmt(a[1])
    [] op = "matchCases2" -> matchCases2(a[1], a[2])
    [] op = "section" -> section(a[1])
    [] op = "parseSections" -> parseSections(a[1], a[2])

\* parser.go:357-375, for lang.NewParser(&l) on a new Lexer for src
Parse(src) ==
  LET a == parseAdvance(NewParser(NewLexer(src)))
  IN IF a.sig # "ok" THEN a ELSE ParseRule("parseSections", <<a.p, << >> >>)

\* an expression that came with the outcome e must end the source
expressionToEnd(e) ==
  IF e.sig = "ok" /\ ~atEnd(e.p)
  THEN PPanic(e.p, parseFmtError(e.p, "expected EOF but saw %s"))
  ELSE e

\* a fresh expression parsed from src: Parser.expression on a new parser,
\* which must then be at the end of src
ParseExpression(src) ==
  LET a == parseAdvance(NewParser(NewLexer(src)))
  IN IF a.sig # "ok" THEN a
     ELSE expressionToEnd(ParseRule("expression", <<a.p>>))

(***************************************************************************)
(* The programs evaluated.  A program is named by a descriptor             *)
(* [fam, k1, k2, a, b, c]; Program(d) is its syntax tree, the Program the  *)
(* parser hands to NewEvaluator.                                           *)
(***************************************************************************)
Desc(fam, k1, k2, a, b, c) ==
  [fam |-> fam, k1 |-> k1, k2 |-> k2, a |-> a, b |-> b, c |-> c]

\* print('ch')
Emit(ch) == ExprStmt(Call(Id("print"), <<Str(<<ch>>)>>))

\* a number as the parser can produce it: literals are never negative
NumExpr(n) == IF n >= 0 THEN Num(n)
              ELSE Bin("-", Bin("-", Num(0), Num(0 - (n + 1))), Num(1))

\* x = e
Assign(x, e) == ExprStmt(Bin("=", Id(x), e))

\* [1, 2, ..., n]
Lit(n) == Arr([i \in 1..n |-> Num(i)])

MapAB == MapLit(<<[k |-> <<"a">>, v |-> Num(1)], [k |-> <<"b">>, v |-> Num(2)],
                  [k |-> <<"c">>, v |-> Num(3)]>>)

LoopKinds == {"forArr", "forRange", "forMap", "forEver"}
NestKinds == {"none", "block", "if", "else", "elif", "matchStr", "matchArr"}
Kinds == NestKinds \cup LoopKinds

\* the statements stmts placed inside one construct of kind k
W(k, stmts) ==
  CASE k = "none" -> stmts
    [] k = "block" -> <<Block(stmts)>>
    [] k = "if" -> <<If(Num(1), Block(stmts), NoNode)>>
    [] k = "else" -> <<If(Num(0), Block(<< >>), Block(stmts))>>
    [] k = "elif" ->
         <<If(Num(0), Block(<< >>), If(Num(1), Block(stmts), NoNode))>>
    [] k = "matchStr" ->
         <<Match(Str(<<"s">>), <<Case(Str(<<"t">>), Block(<< >>)),
                                 Case(Str(<<"s">>), Block(stmts))>>)>>
    [] k = "matchArr" ->
         <<Match(Arr(<<Num(1), Num(2)>>),
                 <<Case(Arr(<<Num(2)>>), Block(<< >>)),
                   Case(Arr(<<Num(1), Id("y")>>), Block(stmts))>>)>>
    [] k = "forArr" -> <<For("x", "i", Lit(3), Block(stmts))>>
    [] k = "forRange" ->
         <<For("x", "", Call(Id("range"), <<Num(0), Num(3)>>), Block(stmts))>>
    [] k = "forMap" -> <<For("x", "i", MapAB, Block(stmts))>>
    [] k = "forEver" -> <<For("", "", NoNode, Block(stmts))>>

\* family "ret": return 7 inside constructs k1 and k2, each followed by
\* print('D'); a = 0: in the body of fn f, called by section main, which
\* prints 'L' after the call; a = 1: in the body of section main itself
RetBody(d) ==
  W(d.k1, W(d.k2, <<Return(Num(7)), Emit("D")>>) \o <<Emit("D")>>)
  \o <<Emit("D"), Return(Num(8))>>

RetProgram(d) ==
  IF d.a = 0
  THEN <<ExprStmt(Func("f", << >>, Block(RetBody(d)))),
         Section("main", Block(<<Var("r", Call(Id("f"), << >>)), Emit("L"),
                                 Return(Id("r"))>>))>>
  ELSE <<Section("main", Block(RetBody(d)))>>

RetDescs == {Desc("ret", k1, k2, a, 0, 0) : k1 \in Kinds, k2 \in Kinds,
                                            a \in {0, 1}}

\* family "brk": a loop of kind k1 over three elements whose body prints
\* 'B', runs break (a = 0) or continue (a = 1) inside a construct k2,
\* followed by print('D'), and then prints 'A'; 'E' is printed after the
\* loop.  The endless loop leaves by a direct break in its third iteration.
BrkBody(d) ==
  <<Emit("B"), Assign("n", Bin("+", Id("n"), Num(1)))>>
  \o (IF d.k1 = "forEver"
      THEN <<If(Bin("==", Id("n"), Num(3)), Block(<<Break>>), NoNode)>>
      ELSE << >>)
  \o W(d.k2, <<(IF d.a = 0 THEN Break ELSE Continue), Emit("D")>>)
  \o <<Emit("A")>>

BrkProgram(d) ==
  <<Section("main", Block(<<Var("n", Num(0))>> \o W(d.k1, BrkBody(d))
                          \o <<Emit("E"), Return(Id("n"))>>))>>

BrkDescs == {Desc("brk", k1, k2, a, 0, 0) : k1 \in LoopKinds,
                                            k2 \in NestKinds, a \in {0, 1}}

\* what family "esc" runs innermost
EscStmt(a) ==
  CASE a = 0 -> <<Break>>
    [] a = 1 -> <<Continue>>
    [] a = 2 -> <<ExprStmt(Id("undefined"))>>
    [] a = 3 -> <<ExprStmt(Bin("/", Num(1), Num(0)))>>
    [] a = 4 -> <<Return(Num(7))>>
    [] a = 5 -> <<Emit("N")>>

\* family "esc": a statement that ends evaluation in way a, inside
\* constructs k1 and k2 of section main (b = 0), or inside k2 in the body of
\* fn f, called inside k1 of section main (b = 1)
EscProgram(d) ==
  IF d.b = 0
  THEN <<Section("main", Block(W(d.k1, W(d.k2, EscStmt(d.a)))))>>
  ELSE <<ExprStmt(Func("f", << >>, Block(W(d.k2, EscStmt(d.a))))),
         Section("main", Block(W(d.k1, <<ExprStmt(Call(Id("f"), << >>))>>)))>>

EscOuter == {"none", "block", "forArr", "forMap", "matchStr", "matchArr"}

EscDescs == {Desc("esc", k1, k2, a, b, 0) : k1 \in EscOuter, k2 \in Kinds,
                                            a \in 0..5, b \in {0, 1}}

\* fn make(n) { return fn(x) { return x + n } }
MakeAdder ==
  ExprStmt(Func("make", <<"n">>,
                Block(<<Return(Func(Anonymous, <<"x">>,
                          Block(<<Return(Bin("+", Id("x"), Id("n")))>>)))>>)))

\* family "clo": closures.  a is the captured value, b the argument, c the
\* value of the caller's variable
CloProgram(d) ==
  CASE d.k1 = "make" ->
         <<MakeAdder,
           Section("main", Block(<<Var("add", Call(Id("make"), <<Num(d.a)>>)),
                                   Return(Call(Id("add"), <<Num(d.b)>>))>>))>>
    [] d.k1 = "shadow" ->
         <<MakeAdder,
           Section("main", Block(<<Var("n", Num(d.c)),
                                   Var("add", Call(Id("make"), <<Num(d.a)>>)),
                                   Return(Call(Id("add"), <<Num(d.b)>>))>>))>>
    [] d.k1 = "calleronly" ->
         <<ExprStmt(Func("g", <<"x">>,
                         Block(<<Return(Bin("+", Id("x"), Id("z")))>>))),
           Section("main", Block(<<Var("z", Num(d.c)),
                                   Return(Call(Id("g"), <<Num(d.b)>>))>>))>>
    [] d.k1 = "counter" ->
         <<ExprStmt(Func("counter", << >>,
              Block(<<Var("n", Num(d.a)),
                      Return(Func(Anonymous, << >>,
                        Block(<<Assign("n", Bin("+", Id("n"), Num(1))),
                                Return(Id("n"))>>)))>>))),
           Section("main", Block(<<Var("n", Num(d.c)),
                                   Var("tick", Call(Id("counter"), << >>)),
                                   ExprStmt(Call(Id("tick"), << >>)),
                                   Return(Call(Id("tick"), << >>))>>))>>

CloDescs == {Desc("clo", k1, "", a, b, a + 50) :
               k1 \in {"make", "shadow", "calleronly", "counter"},
               a \in {0, 1, 5}, b \in {0, 2, 10}}

\* the value pushed by family "push"
PushArg(b) == CASE b = 0 -> Num(7) [] b = 1 -> Str(<<"s">>) [] b = 2 -> Nil
                [] b = 3 -> Lit(1)

\* family "push": var a = (an array of length d.a); var l0 = len(a);
\* var b = push(a, x); return [l0, len(a), len(b)]
PushSource(d) ==
  CASE d.k1 = "lit" -> Lit(d.a)
    [] d.k1 = "pushed" -> Call(Id("push"), <<Lit(d.a - 1), Num(0)>>)
    [] d.k1 = "sliced" -> Call(Id("slice"), <<Lit(d.a + 2), Num(0), Num(d.a)>>)

PushProgram(d) ==
  <<Section("main", Block(<<
      Var("a", PushSource(d)),
      Var("l0", Call(Id("len"), <<Id("a")>>)),
      Var("b", Call(Id("push"), <<Id("a"), PushArg(d.b)>>)),
      Return(Arr(<<Id("l0"), Call(Id("len"), <<Id("a")>>),
                   Call(Id("len"), <<Id("b")>>)>>))>>))>>

MaxArrayLen == 5      \* longest array literal of families "push" and "alias"

PushDescs ==
  {Desc("push", "lit", "", a, b, 0) : a \in 0..MaxArrayLen, b \in 0..3}
  \cup {Desc("push", "pushed", "", a, b, 0) : a \in 1..MaxArrayLen, b \in 0..3}
  \cup {Desc("push", "sliced", "", a, b, 0) : a \in 0..MaxArrayLen, b \in 0..3}

Index(x, i) == Bin("[", Id(x), Num(i))
SetIndex(x, i, e) == ExprStmt(Bin("=", Index(x, i), e))

\* family "alias": var a = [1, ..., d.a], then pushes, slices and
\* subscript-assignments; the program returns an element that the
\* operations in between were not applied to
AliasBody(d) ==
  CASE d.k1 = "pushpush" ->
         <<Var("b", Call(Id("push"), <<Id("a"), Num(7)>>)),
           Var("c", Call(Id("push"), <<Id("a"), Num(8)>>)),
           Return(Index("b", d.a))>>
    [] d.k1 = "pushset_a" ->
         <<Var("b", Call(Id("push"), <<Id("a"), Num(7)>>)),
           SetIndex("a", 0, Num(9)),
           Return(Index("b", 0))>>
    [] d.k1 = "pushset_b" ->
         <<Var("b", Call(Id("push"), <<Id("a"), Num(7)>>)),
           SetIndex("b", 0, Num(9)),
           Return(Index("a", 0))>>
    [] d.k1 = "pushset_c" ->
         <<Var("b", Call(Id("push"), <<Id("a"), Num(7)>>)),
           Var("c", Call(Id("push"), <<Id("a"), Num(8)>>)),
           SetIndex("c", 0, Num(9)),
           Return(Index("b", 0))>>
    [] d.k1 = "sliceset_s" ->
         <<Var("s", Call(Id("slice"), <<Id("a"), Num(0), Num(1)>>)),
           SetIndex("s", 0, Num(9)),
           Return(Index("a", 0))>>
    [] d.k1 = "sliceset_a" ->
         <<Var("s", Call(Id("slice"), <<Id("a"), Num(0), Num(1)>>)),
           SetIndex("a", 0, Num(9)),
           Return(Index("s", 0))>>

AliasProgram(d) ==
  <<Section("main", Block(<<Var("a", Lit(d.a))>> \o AliasBody(d)))>>

\* what the returned element was before the operations in between
AliasExpected(d) == IF d.k1 = "pushpush" THEN 7 ELSE 1

AliasDescs ==
  {Desc("alias", "pushpush", "", a, 0, 0) : a \in 0..MaxArrayLen}
  \cup {Desc("alias", k1, "", a, 0, 0) :
          k1 \in {"pushset_a", "pushset_b", "pushset_c"}, a \in 1..MaxArrayLen}
  \cup {Desc("alias", k1, "", a, 0, 0) :
          k1 \in {"sliceset_s", "sliceset_a"}, a \in 2..MaxArrayLen}

\* the literal operands of family "cmp" and the values they evaluate to
LitExprs == <<Nil, Num(0), Num(1), Str(<<"a">>), Str(<<"b">>), Str(<< >>),
              Arr(<< >>), MapLit(<< >>)>>
LitTags == <<"nil", "number", "number", "string", "string", "string",
             "array", "map">>
LitVals == <<NilValue, NumV(0), NumV(1), StrV(<<"a">>), StrV(<<"b">>),
             StrV(<< >>)>>

\* family "cmp": the section main: x == y (c = 0) or main: x != y (c = 1)
\* for the a-th and b-th literal
CmpProgram(d) ==
  <<Section("main", ExprStmt(Bin(IF d.c = 0 THEN "==" ELSE "!=",
                                 LitExprs[d.a], LitExprs[d.b])))>>

CmpDescs == {Desc("cmp", "", "", a, b, c) :
               a \in 1..Len(LitExprs), b \in 1..Len(LitExprs), c \in {0, 1}}

\* family "rng": var r = []; for i in range(a, b) { r = push(r, i) };
\* return r, with rangei for c = 1
RngProgram(d) ==
  <<Section("main", Block(<<
      Var("r", Arr(<< >>)),
      For("i", "", Call(Id(IF d.c = 0 THEN "range" ELSE "rangei"),
                        <<NumExpr(d.a), NumExpr(d.b)>>),
          Block(<<Assign("r", Call(Id("push"), <<Id("r"), Id("i")>>))>>)),
      Return(Id("r"))>>))>>

RangeEnds == {IntMin, IntMin + 1, IntMin + 2, 0 - 2, 0 - 1, 0, 1, 2, 3, 4, 7,
              IntMax - 2, IntMax - 1, IntMax}

Dist(a, b) == IF a < b THEN b - a ELSE a - b

\* the pairs for which rangei's `to += step` wraps around
WrapEnds == {<<IntMin, IntMax>>, <<IntMax, IntMin>>}

RngDescs == {Desc("rng", "", "", p[1], p[2], c) :
               p \in {q \in RangeEnds \X RangeEnds :
                        Dist(q[1], q[2]) <= MaxSpan},
               c \in {0, 1}}
            \cup {Desc("rng", "", "", p[1], p[2], 1) : p \in WrapEnds}

\* family "pat": array patterns made of identifiers and literals, matched
\* against [a, b, c]
PatProgram(d) ==
  CASE d.k1 = "one" ->
         <<Section("main", Block(<<
             Match(Arr(<<Num(1), Num(d.a), Num(3)>>),
                   <<Case(Arr(<<Num(1), Id("y"), Num(3)>>),
                          Block(<<Return(Id("y"))>>))>>)>>))>>
    [] d.k1 = "two" ->
         <<Section("main", Block(<<
             Match(Arr(<<Num(d.a), Num(d.b)>>),
                   <<Case(Arr(<<Id("x"), Id("y")>>),
                          Block(<<Return(Arr(<<Id("x"), Id("y")>>))>>))>>)>>))>>
    [] d.k1 = "three" ->
         <<Section("main", Block(<<
             Match(Arr(<<Num(d.a), Num(d.b), Num(d.c)>>),
                   <<Case(Arr(<<Id("x"), Id("y"), Id("z")>>),
                          Block(<<Return(Arr(<<Id("x"), Id("y"),
                                               Id("z")>>))>>))>>)>>))>>
    [] d.k1 = "mixed" ->
         <<Section("main", Block(<<
             Match(Arr(<<Num(d.a), Num(2), Num(d.c)>>),
                   <<Case(Arr(<<Id("x"), Num(2), Id("z")>>),
                          Block(<<Return(Arr(<<Id("x"), Num(2),
                                               Id("z")>>))>>))>>)>>))>>
    [] d.k1 = "scope" ->
         <<Section("main", Block(<<
             Match(Arr(<<Num(1), Num(d.a), Num(3)>>),
                   <<Case(Arr(<<Num(1), Id("y"), Num(3)>>),
                          Block(<<Emit("M")>>))>>),
             Return(Id("y"))>>))>>
    [] d.k1 = "outer" ->
         <<Section("main", Block(<<
             Var("y", Num(5)),
             Match(Arr(<<Num(1), Num(d.a), Num(3)>>),
                   <<Case(Arr(<<Num(1), Id("y"), Num(3)>>),
                          Block(<<Emit("M")>>))>>),
             Return(Id("y"))>>))>>

PatVals == {0, 1, 99}

PatDescs ==
  {Desc("pat", k1, "", a, 2, 3) : k1 \in {"one", "scope", "outer"},
                                  a \in PatVals}
  \cup {Desc("pat", "two", "", a, b, 3) : a \in PatVals, b \in PatVals}
  \cup {Desc("pat", k1, "", a, 2, c) : k1 \in {"three", "mixed"},
                                       a \in PatVals, c \in PatVals}

\* family "div": the section main: a / y or main: a % y on line c, where y
\* is 0, nil, or a variable holding 0
DivProgram(d) ==
  <<Var("z", Num(0)),
    Section("main", ExprStmt(At(
      Bin(d.k1, NumExpr(d.a),
          CASE d.k2 = "zero" -> Num(0)
            [] d.k2 = "nil" -> Nil
            [] d.k2 = "var" -> Id("z")), d.c)))>>

DivDescs == {Desc("div", k1, k2, a, 0, c) :
               k1 \in {"/", "%"}, k2 \in {"zero", "nil", "var"},
               a \in {5, 0, 0 - 1, IntMin}, c \in {1, 3}}

\* family "nat": a native called on line c in a way that makes it fail
NatCalls ==
  [push_str |-> Call(Id("push"), <<Str(<<"s">>), Num(1)>>),
   push_one |-> Call(Id("push"), <<Lit(1)>>),
   len_none |-> Call(Id("len"), << >>),
   slice_rev |-> Call(Id("slice"), <<Lit(3), Num(2), Num(1)>>),
   slice_high |-> Call(Id("slice"), <<Lit(3), Num(0), Num(5)>>),
   slice_tag |-> Call(Id("slice"), <<Num(1), Num(0), Num(0)>>),
   range_tag |-> Call(Id("range"), <<Str(<<"a">>), Num(1)>>),
   range_arity |-> Call(Id("range"), <<Num(1)>>),
   rangei_tag |-> Call(Id("rangei"), <<Num(1), Nil>>),
   delete_tag |-> Call(Id("delete"), <<Num(1), Num(2)>>),
   read_tag |-> Call(Id("read"), <<Num(1)>>),
   read_missing |-> Call(Id("read"), <<Str(<<"n", "o">>)>>)]

NatProgram(d) == <<Section("main", ExprStmt(At(NatCalls[d.k1], d.c)))>>

NatDescs == {Desc("nat", k1, "", 0, 0, c) : k1 \in DOMAIN NatCalls,
                                            c \in {1, 4}}

\* family "asg": main: { var v = b; <u = a; print('K')>; return u }, the
\* part in <> inside a construct of kind k2; k1 = "keep" returns v instead
AsgProgram(d) ==
  <<Section("main", Block(
      <<Var("v", Num(d.b))>>
      \o W(d.k2, <<Assign("u", Num(d.a)), Emit("K")>>)
      \o <<Return(At(Id(IF d.k1 = "lookup" THEN "u" ELSE "v"), d.c))>>))>>

AsgDescs == {Desc("asg", k1, k2, a, b, c) :
               k1 \in {"lookup", "keep"}, k2 \in NestKinds \ {"matchStr"},
               a \in {0, 7}, b \in {3, 7}, c \in {2, 5}}

\* family "fmap": main: { var acc = []; for a, b in { p: a, q: b, r: a + b }
\* { acc = push(acc, a); acc = push(acc, b) }; return acc }, the map cut to
\* its first c entries
FmapKeys == <<"p", "q", "r">>
FmapVals(d) == <<d.a, d.b, d.a + d.b>>

FmapProgram(d) ==
  <<Section("main", Block(<<
      Var("acc", Arr(<< >>)),
      For("a", "b",
          MapLit([i \in 1..d.c |->
                    [k |-> <<FmapKeys[i]>>, v |-> Num(FmapVals(d)[i])]]),
          Block(<<Assign("acc", Call(Id("push"), <<Id("acc"), Id("a")>>)),
                  Assign("acc", Call(Id("push"), <<Id("acc"), Id("b")>>))>>)),
      Return(Id("acc"))>>))>>

FmapDescs == {Desc("fmap", "", "", a, b, c) :
                a \in {0, 4}, b \in {4, 9}, c \in 1..3}

\* family "lv": main: { var n = 0; var t = a; for ... { n = n + 1;
\* if n == 2 { print(t) }; var t = b; if n == 3 { break } }; return t },
\* looping as k1 says; k2 = "bare" leaves out the outer var t and returns n
LvProgram(d) ==
  <<Section("main", Block(
      <<Var("n", Num(0))>>
      \o (IF d.k2 = "outer" THEN <<Var("t", Num(d.a))>> ELSE << >>)
      \o W(d.k1, <<Assign("n", Bin("+", Id("n"), Num(1))),
                   If(Bin("==", Id("n"), Num(2)),
                      Block(<<ExprStmt(At(Call(Id("print"), <<At(Id("t"), d.c)>>),
                                          d.c))>>),
                      NoNode),
                   Var("t", Num(d.b)),
                   If(Bin("==", Id("n"), Num(3)), Block(<<Break>>), NoNode)>>)
      \o <<Return(Id(IF d.k2 = "outer" THEN "t" ELSE "n"))>>))>>

LvDescs == {Desc("lv", k1, k2, a, b, c) :
              k1 \in LoopKinds, k2 \in {"outer", "bare"},
              a \in {1, 6}, b \in {5, 6}, c \in {2, 4}}

\* family "log": fn l() { print('L') return A }  fn r() { print('R')
\* return B }  main: l() && r(), with || for k1 = "||"; A and B are the
\* operands number a and number b of LogOperands
LogOperands == <<Num(0), Num(5), NumExpr(0 - 1), Nil, Str(<<"s">>),
                 Str(<< >>), Arr(<<Num(1)>>)>>

LogFn(name, ch, e) ==
  ExprStmt(Func(name, << >>, Block(<<Emit(ch), Return(e)>>)))

LogProgram(d) ==
  <<LogFn("l", "L", LogOperands[d.a]),
    LogFn("r", "R", LogOperands[d.b]),
    Section("main", ExprStmt(At(Bin(d.k1, Call(Id("l"), << >>),
                                    Call(Id("r"), << >>)), d.c)))>>

LogDescs == {Desc("log", k1, "", a, b, c) :
               k1 \in {"&&", "||"}, a \in 1..Len(LogOperands),
               b \in 1..Len(LogOperands), c \in {1, 3}}

\* family "assoc", parsed from its source text:
\*   fn f(a,b,c){a=b=c return a*10+b} main:f(A,B,C)
\* k1 = "paren" writes a=(b=c); k2 = "lines" puts every statement on a line
\* of its own, with blanks around each =
AssocSource(d) ==
  LET sep == IF d.k2 = "lines" THEN <<"\n">> ELSE <<" ">>
      eq == IF d.k2 = "lines" THEN <<" ", "=", " ">> ELSE <<"=">>
  IN <<"f", "n", " ", "f", "(", "a", ",", "b", ",", "c", ")", "{">>
     \o (IF d.k2 = "lines" THEN sep ELSE << >>)
     \o (IF d.k1 = "paren"
         THEN <<"a">> \o eq \o <<"(", "b">> \o eq \o <<"c", ")">>
         ELSE <<"a">> \o eq \o <<"b">> \o eq \o <<"c">>)
     \o sep \o <<"r", "e", "t", "u", "r", "n", " ", "a", "*", "1", "0", "+", "b">>
     \o (IF d.k2 = "lines" THEN sep ELSE << >>) \o <<"}">> \o sep
     \o <<"m", "a", "i", "n", ":", "f", "(">>
     \o Itoa(d.a) \o <<",">> \o Itoa(d.b) \o <<",">> \o Itoa(d.c) \o <<")">>

AssocProgram(d) == Parse(AssocSource(d)).node

AssocDescs == {Desc("assoc", k1, k2, a, b, c) :
                 k1 \in {"chain", "paren"}, k2 \in {"tight", "lines"},
                 a \in {1, 7}, b \in {2, 7}, c \in {7, 3}}

\* family "scope": main: { var u = a; var w = 1; <print(u); var u = b;
\* print(u); u = c; print(u); w = 9>; print(u); print(w); return u }, the
\* part in <> inside a construct of kind k2 (and followed by break in a
\* loop); k1 = "assign" leaves out the inner var u
ScopeProgram(d) ==
  <<Section("main", Block(
      <<Var("u", Num(d.a)), Var("w", Num(1))>>
      \o W(d.k2, <<ExprStmt(Call(Id("print"), <<Id("u")>>))>>
                 \o (IF d.k1 = "declare"
                     THEN <<Var("u", Num(d.b)),
                            ExprStmt(Call(Id("print"), <<Id("u")>>))>>
                     ELSE << >>)
                 \o <<Assign("u", Num(d.c)),
                      ExprStmt(Call(Id("print"), <<Id("u")>>)),
                      Assign("w", Num(9))>>
                 \o (IF d.k2 \in LoopKinds THEN <<Break>> ELSE << >>))
      \o <<ExprStmt(Call(Id("print"), <<Id("u")>>)),
           ExprStmt(Call(Id("print"), <<Id("w")>>)),
           Return(Id("u"))>>))>>

ScopeDescs == {Desc("scope", k1, k2, a, b, c) :
                 k1 \in {"declare", "assign"}, k2 \in Kinds,
                 a \in {1, 2}, b \in {3, 4}, c \in {5, 6}}

\* the body of the closure of family "call"
CallBody(k) ==
  <<ExprStmt(Call(Id("print"), <<Id("p")>>))>>
  \o CASE k = "return" -> <<Return(Bin("+", Id("p"), Id("n")))>>
       [] k = "error" -> <<ExprStmt(Id("undefined"))>>
       [] k = "break" -> <<Break>>
       [] k = "continue" -> <<Continue>>
       [] OTHER -> <<ExprStmt(Call(Id("print"), <<Id("n")>>))>>

\* family "call": fn mk(n) { return fn(p) { print(p); ... } }
\* main: { var n = c; var h = mk(a); <var r = h(b); print(n); print(r)>;
\* return n }, the part in <> inside a construct of kind k2.  k1 tells how
\* the call of h ends: "fall" (the body goes on with print(n)), "return"
\* (return p + n), "error" (an unknown variable), "break", "continue", or
\* "arity" (h is called with two arguments)
CallProgram(d) ==
  <<ExprStmt(Func("mk", <<"n">>,
       Block(<<Return(Func(Anonymous, <<"p">>, Block(CallBody(d.k1))))>>))),
    Section("main", Block(
      <<Var("n", Num(d.c)), Var("h", Call(Id("mk"), <<Num(d.a)>>))>>
      \o W(d.k2, <<Var("r", Call(Id("h"),
                                 IF d.k1 = "arity" THEN <<Num(d.b), Num(d.b)>>
                                 ELSE <<Num(d.b)>>)),
                   ExprStmt(Call(Id("print"), <<Id("n")>>)),
                   ExprStmt(Call(Id("print"), <<Id("r")>>))>>)
      \o <<Return(Id("n"))>>))>>

CallEnds == {"fall", "return", "error", "break", "continue", "arity"}

CallDescs == {Desc("call", k1, k2, a, b, c) :
                k1 \in CallEnds, k2 \in {"none", "block", "if", "matchArr"},
                a \in {1, 2}, b \in {3, 4}, c \in {5, 6}}

\* the scrutinees and the patterns of family "mat"
MatScrutinees ==
  <<Str(<<"s">>), Str(<<"t">>), Arr(<<Num(1), Num(2)>>), Arr(<<Num(1)>>),
    Num(5), Nil, Arr(<<Str(<<"a">>), Num(2)>>), Arr(<< >>)>>

MatPatterns ==
  <<Str(<<"s">>), Str(<<"t">>), Arr(<<Num(1), Num(2)>>),
    Arr(<<Id("x"), Num(2)>>), Arr(<<Num(1)>>),
    Arr(<<Num(1), Num(2), Num(3)>>), Arr(<<Str(<<"a">>)>>),
    Arr(<<Id("x")>>), Arr(<< >>)>>

\* family "mat": fn s() { print('S') return A }
\* main: { match s() { B: { print('1') } C: { print('2') }
\* [x, y]: { print('3') } } print('E') }, with A scrutinee number a and B
\* and C patterns number b and c
MatProgram(d) ==
  <<ExprStmt(Func("s", << >>,
       Block(<<Emit("S"), Return(MatScrutinees[d.a])>>))),
    Section("main", Block(<<
      Match(Call(Id("s"), << >>),
            <<Case(MatPatterns[d.b], Block(<<Emit("1")>>)),
              Case(MatPatterns[d.c], Block(<<Emit("2")>>)),
              Case(Arr(<<Id("x"), Id("y")>>), Block(<<Emit("3")>>))>>),
      Emit("E")>>))>>

MatDescs == {Desc("mat", "", "", a, b, c) :
               a \in DOMAIN MatScrutinees, b \in DOMAIN MatPatterns,
               c \in DOMAIN MatPatterns}

\* the string subscripted by family "idx"
IdxString == <<"x", "y", "z">>

\* family "idx": var a = [1, 2, 3] at the top level and the section
\* main: return a[i] (k1 = "readArr"), main: return 'xyz'[i] ("readStr") or
\* main: { a[i] = 9; print('W') } ("write"), the subscript on line c, for
\* the index i = d.a
IdxProgram(d) ==
  LET sub(e) == At(Bin("[", e, NumExpr(d.a)), d.c)
  IN <<Var("a", Arr(<<Num(1), Num(2), Num(3)>>)),
       Section("main",
         CASE d.k1 = "readArr" -> Block(<<Return(sub(Id("a")))>>)
           [] d.k1 = "readStr" -> Block(<<Return(sub(Str(IdxString)))>>)
           [] d.k1 = "write" ->
                Block(<<ExprStmt(At(Bin("=", sub(Id("a")), Num(9)), d.c)),
                        Emit("W")>>))>>

IdxDescs == {Desc("idx", k1, "", a, 0, c) :
               k1 \in {"readArr", "readStr", "write"}, a \in (0 - 2)..4,
               c \in {2, 5}}

\* family "slc": main: return slice([1, ..., c], a, b)
SlcProgram(d) ==
  <<Section("main", Block(<<
      Return(Call(Id("slice"), <<Lit(d.c), NumExpr(d.a), NumExpr(d.b)>>))>>))>>

MaxSliceLen == 3      \* longest array handed to slice by family "slc"

SlcDescs == {Desc("slc", "", "", a, b, c) :
               a \in (0 - 1)..(MaxSliceLen + 1),
               b \in (0 - 1)..(MaxSliceLen + 1), c \in 0..MaxSliceLen}

\* family "twice": main: { var r = range(a, b); for i in r { print(i);
\* if i == c { break } }; print('|'); for i in r { print(i) } }
TwiceProgram(d) ==
  <<Section("main", Block(<<
      Var("r", Call(Id("range"), <<Num(d.a), Num(d.b)>>)),
      For("i", "", Id("r"),
          Block(<<ExprStmt(Call(Id("print"), <<Id("i")>>)),
                  If(Bin("==", Id("i"), Num(d.c)), Block(<<Break>>),
                     NoNode)>>)),
      Emit("|"),
      For("i", "", Id("r"),
          Block(<<ExprStmt(Call(Id("print"), <<Id("i")>>))>>))>>))>>

\* c = 9 is a number the range never yields: the first loop runs to its end
TwiceDescs == {Desc("twice", "", "", a, b, c) :
                 a \in 0..3, b \in 0..3, c \in {0, 1, 2, 9}}

Descs == RetDescs \cup BrkDescs \cup EscDescs \cup CloDescs \cup PushDescs
         \cup AliasDescs \cup CmpDescs \cup RngDescs \cup PatDescs
         \cup DivDescs \cup NatDescs \cup AsgDescs
         \cup FmapDescs \cup LvDescs \cup LogDescs
         \cup AssocDescs \cup ScopeDescs \cup CallDescs
         \cup MatDescs \cup IdxDescs \cup SlcDescs
         \cup TwiceDescs

Program(d) ==
  CASE d.fam = "ret" -> RetProgram(d)
    [] d.fam = "brk" -> BrkProgram(d)
    [] d.fam = "esc" -> EscProgram(d)
    [] d.fam = "clo" -> CloProgram(d)
    [] d.fam = "push" -> PushProgram(d)
    [] d.fam = "alias" -> AliasProgram(d)
    [] d.fam = "cmp" -> CmpProgram(d)
    [] d.fam = "rng" -> RngProgram(d)
    [] d.fam = "pat" -> PatProgram(d)
    [] d.fam = "div" -> DivProgram(d)
    [] d.fam = "nat" -> NatProgram(d)
    [] d.fam = "asg" -> AsgProgram(d)
    [] d.fam = "fmap" -> FmapProgram(d)
    [] d.fam = "lv" -> LvProgram(d)
    [] d.fam = "log" -> LogProgram(d)
    [] d.fam = "assoc" -> AssocProgram(d)
    [] d.fam = "scope" -> ScopeProgram(d)
    [] d.fam = "call" -> CallProgram(d)
    [] d.fam = "mat" -> MatProgram(d)
    [] d.fam = "idx" -> IdxProgram(d)
    [] d.fam = "slc" -> SlcProgram(d)
    [] d.fam = "twice" -> TwiceProgram(d)

SectionNames == {"main", "nosuch"}

MaxCalls == 2         \* EvalSection calls the host makes on one evaluator

(***************************************************************************)
(* The state machine: a host that constructs an evaluator for a program    *)
(* and calls EvalSection on it.                                            *)
(*   prog   the descriptor of the program                                  *)
(*   ev     the evaluator (the machine)                                    *)
(*   pc     "new" before NewEvaluator, "running" while an accepted         *)
(*          EvalSection call has not finished, else "idle"                 *)
(*   last   how the most recent EvalSection call ended, or was refused,    *)
(*          and what it wrote to standard output                           *)
(*   calls  the number of EvalSection calls made                           *)
(*   host   where the command line program is in test() or run(), and      *)
(*          what it has got so far                                         *)
(***************************************************************************)
VARIABLES prog, ev, pc, last, calls, lexer, scan, trip, host

vars == <<prog, ev, pc, last, calls, lexer, scan, trip, host>>

NoCall == [name |-> "", phase |-> "none", sig |-> "ok", val |-> NilValue,
           err |-> NoErr, out |-> << >>]

\* nothing lexed yet
NoScan == [toks |-> << >>, st |-> "ready", err |-> NoErr]

\* no value taken through Repr yet
NoTrip == [st |-> "none", v |-> NilValue, text |-> << >>, node |-> NoNode,
           w |-> NilValue, cmp |-> [res |-> FALSE, err |-> FALSE],
           err |-> NoErr]

\* the command line program has not started test() or run()
NoHost == [pc |-> "none", vals |-> << >>, trace |-> << >>, oneOk |-> TRUE,
           twoOk |-> TRUE, ret |-> FALSE, suite |-> "none", err |-> NoErr]

Init ==
  /\ prog \in Descs
  /\ ev = NewMachine
  /\ pc = "new"
  /\ last = NoCall
  /\ calls = 0
  /\ lexer = NewLexer(<< >>)
  /\ scan = NoScan
  /\ trip = NoTrip
  /\ host = NoHost

\* lang.NewEvaluator(&prog, &l, profile)
Construct ==
  /\ pc = "new"
  /\ \E program \in {Program(prog)} : ev' = NewEvaluator(program)
  /\ pc' = "idle"
  /\ UNCHANGED <<prog, last, calls, lexer, scan, trip, host>>

\* ev.EvalSection(name) is called and runs up to the evaluation of the body;
\* rev is the order Go's map iteration takes during this call
EvalSectionCall(name, rev) ==
  /\ pc \in {"idle", "running"}
  /\ calls < MaxCalls
  /\ LET r == EvalSectionEnter(ev, name)
     IN /\ ev' = IF r.sig = "ok" THEN [r.m EXCEPT !.rev = rev] ELSE r.m
        /\ pc' = IF r.sig = "ok" THEN "running" ELSE pc
        /\ last' = [name |-> name, phase |-> "enter", sig |-> r.sig,
                    val |-> r.val, err |-> r.err, out |-> << >>]
  /\ calls' = calls + 1
  /\ UNCHANGED <<prog, lexer, scan, trip, host>>

\* the accepted call evaluates the body, runs its deferred function and
\* returns or unwinds
EvalSectionFinish ==
  /\ pc = "running"
  /\ LET r == EvalSectionBody(ev)
     IN /\ ev' = r.m
        /\ last' = [name |-> ev.section.label, phase |-> "finish",
                    sig |-> r.sig, val |-> r.val, err |-> r.err,
                    out |-> SubSeq(r.m.out, Len(ev.out) + 1, Len(r.m.out))]
  /\ pc' = "idle"
  /\ UNCHANGED <<prog, calls, lexer, scan, trip, host>>

Next ==
  \/ Construct
  \/ \E name \in SectionNames, rev \in BOOLEAN : EvalSectionCall(name, rev)
  \/ EvalSectionFinish

Spec == Init /\ [][Next]_vars

(***************************************************************************)
(* The lexer on its own: a caller makes a Lexer for a source and calls     *)
(* NextToken until it gets EOF or an error, as the loop of main.go:197-217 *)
(* does.  Here prog names the source, as the list of its pieces.           *)
(*   lexer  the Lexer                                                      *)
(*   scan   the tokens returned so far, each as its tag and GetString, and *)
(*          how the run stands: "ready", "eof", "error" (with err), or     *)
(*          "hung" when a call does not return                             *)
(***************************************************************************)
MaxItems == 3         \* pieces in one source

\* the pieces sources are made of; tag "" is whitespace or a comment;
\* kind "word" and kind "op" pieces run together when adjacent
Pieces ==
  <<[text |-> <<"a", "b">>, tag |-> "Identifier", str |-> <<"a", "b">>,
     kind |-> "word"],
    [text |-> <<"i", "n">>, tag |-> "In", str |-> << >>, kind |-> "word"],
    [text |-> <<"1", "0">>, tag |-> "Num", str |-> <<"1", "0">>,
     kind |-> "word"],
    [text |-> <<"'", "s", " ", "#", "'">>, tag |-> "Str",
     str |-> <<"s", " ", "#">>, kind |-> "solo"],
    [text |-> <<"=">>, tag |-> "Equal", str |-> << >>, kind |-> "op"],
    [text |-> <<"=", "=">>, tag |-> "EqualEqual", str |-> << >>,
     kind |-> "op"],
    [text |-> <<"(">>, tag |-> "LParen", str |-> << >>, kind |-> "solo"],
    [text |-> <<"&", "&">>, tag |-> "AmpAmp", str |-> << >>, kind |-> "solo"],
    [text |-> <<" ">>, tag |-> "", str |-> << >>, kind |-> "space"],
    [text |-> <<"\n">>, tag |-> "", str |-> << >>, kind |-> "newline"],
    [text |-> <<"\t">>, tag |-> "", str |-> << >>, kind |-> "space"],
    [text |-> <<"#", "c", " ", "\n">>, tag |-> "", str |-> << >>,
     kind |-> "newline"],
    [text |-> <<"#", "c">>, tag |-> "", str |-> << >>, kind |-> "comment"],
    [text |-> <<"'", "u">>, tag |-> "Str", str |-> <<"u">>, kind |-> "open"]>>

RECURSIVE SeqsUpTo(_, _)
SeqsUpTo(S, n) ==
  IF n = 0 THEN {<< >>}
  ELSE LET T == SeqsUpTo(S, n - 1)
       IN T \cup {Append(t, x) : t \in {u \in T : Len(u) = n - 1}, x \in S}

LexDescs == {[fam |-> "lex", items |-> its] :
               its \in SeqsUpTo(1..Len(Pieces), MaxItems)}

RECURSIVE Source(_)
Source(items) ==
  IF items = << >> THEN << >>
  ELSE Pieces[Head(items)].text \o Source(Tail(items))

LexInit ==
  /\ prog \in LexDescs
  /\ lexer = NewLexer(Source(prog.items))
  /\ scan = NoScan
  /\ ev = NewMachine
  /\ pc = "new"
  /\ last = NoCall
  /\ calls = 0
  /\ trip = NoTrip
  /\ host = NoHost

\* t, err := l.NextToken() and what the caller makes of it
NextTokenCall ==
  /\ prog.fam \in {"lex", "line"}
  /\ scan.st = "ready"
  /\ LET r == NextToken(lexer)
     IN /\ lexer' = r.lex
        /\ scan' =
             CASE r.sig = "hang" -> [scan EXCEPT !.st = "hung"]
               [] r.sig = "error" -> [scan EXCEPT !.st = "error", !.err = r.err]
               [] r.sig = "ok" ->
                    [scan EXCEPT
                       !.toks = Append(@, [tag |-> r.tok.tag,
                                           str |-> GetString(r.lex, r.tok)]),
                       !.st = IF r.tok.tag = "EOF" THEN "eof" ELSE "ready"]
  /\ UNCHANGED <<prog, ev, pc, last, calls, trip, host>>

LexNext == NextTokenCall

LexSpec == LexInit /\ [][LexNext]_vars

(***************************************************************************)
(* The lexer on sources with several lines and characters that start no    *)
(* token: the same caller, with prog the list of the pieces of the source  *)
(* taken from LinePieces.                                                  *)
(***************************************************************************)
MaxLineItems == 3     \* pieces in one source

\* a word, a newline, a space, a comment with its newline, a string on one
\* line, a string with a newline inside, a string that ends with a newline,
\* and two characters that start no token ("!" does when "=" follows)
LinePieces ==
  <<<<"a">>, <<"\n">>, <<" ">>, <<"#", "c", "\n">>, <<"'", "s", "'">>,
    <<"'", "s", "\n", "t", "'">>, <<"'", "s", "\n", "'">>, <<"$">>, <<"!">>>>

LineDescs == {[fam |-> "line", items |-> its] :
                its \in SeqsUpTo(1..Len(LinePieces), MaxLineItems)}

RECURSIVE LineSource(_)
LineSource(items) ==
  IF items = << >> THEN << >>
  ELSE LinePieces[Head(items)] \o LineSource(Tail(items))

LineInit ==
  /\ prog \in LineDescs
  /\ lexer = NewLexer(LineSource(prog.items))
  /\ scan = NoScan
  /\ ev = NewMachine
  /\ pc = "new"
  /\ last = NoCall
  /\ calls = 0
  /\ trip = NoTrip
  /\ host = NoHost

LineNext == NextTokenCall

LineSpec == LineInit /\ [][LineNext]_vars

(***************************************************************************)
(* The round trip through Repr: a value that a literal constructs is       *)
(* written by Value.Repr, the text is parsed as a fresh expression, the    *)
(* expression is evaluated and Value.Compare is asked about the two        *)
(* values.  trip holds how far the trip has come and what it yielded.      *)
(***************************************************************************)
MaxElems == 2         \* items in one array literal

ReprStrings == {<< >>, <<"a">>, <<"a", " ", "b">>, <<"#", "\n">>}

\* the literals of tag Nil, Number and String
ReprAtoms ==
  {Nil} \cup {Num(n) : n \in {0, 7, IntMax}} \cup {Str(cs) : cs \in ReprStrings}

ArraysOf(S) == {Arr(xs) : xs \in SeqsUpTo(S, MaxElems)}

\* the literals taken through the trip: the atoms, the arrays of atoms and
\* the arrays that hold one array of atoms
ReprLiterals ==
  ReprAtoms \cup ArraysOf(ReprAtoms)
  \cup {Arr(<<x>>) : x \in ArraysOf(ReprAtoms)}

ReprDescs == {[fam |-> "repr", lit |-> l] : l \in ReprLiterals}

ReprInit ==
  /\ prog \in ReprDescs
  /\ ev = NewEvaluator(<< >>)
  /\ pc = "idle"
  /\ last = NoCall
  /\ calls = 0
  /\ lexer = NewLexer(<< >>)
  /\ scan = NoScan
  /\ trip = [NoTrip EXCEPT !.st = "literal"]
  /\ host = NoHost

\* the trip after an evaluation with outcome r, which on success puts its
\* value into field f and moves on to st
tripEvaluated(r, f, st) ==
  IF r.sig = "ok" THEN [trip EXCEPT ![f] = r.val, !.st = st]
  ELSE [trip EXCEPT !.st = "failed", !.err = r.err]

\* the trip after the parse with outcome pe
tripParsed(pe) ==
  IF pe.sig = "ok" THEN [trip EXCEPT !.node = pe.node, !.st = "parsed"]
  ELSE [trip EXCEPT !.st = "failed", !.err = pe.err]

\* the literal is evaluated: v is the value it constructs
EvalLiteral ==
  /\ prog.fam = "repr"
  /\ trip.st = "literal"
  /\ \E r \in {Eval("evalExpr", <<ev, prog.lit>>)} :
       ev' = r.m /\ trip' = tripEvaluated(r, "v", "value")
  /\ UNCHANGED <<prog, pc, last, calls, lexer, scan, host>>

\* v.Repr()
ReprCall ==
  /\ prog.fam = "repr"
  /\ trip.st = "value"
  /\ trip' = [trip EXCEPT !.text = Repr(ev, trip.v), !.st = "text"]
  /\ UNCHANGED <<prog, ev, pc, last, calls, lexer, scan, host>>

\* the text is parsed as a fresh expression
ParseCall ==
  /\ prog.fam = "repr"
  /\ trip.st = "text"
  /\ trip' = tripParsed(ParseExpression(trip.text))
  /\ UNCHANGED <<prog, ev, pc, last, calls, lexer, scan, host>>

\* the expression is evaluated: w is its value
EvalCall ==
  /\ prog.fam = "repr"
  /\ trip.st = "parsed"
  /\ \E r \in {Eval("evalExpr", <<ev, trip.node>>)} :
       ev' = r.m /\ trip' = tripEvaluated(r, "w", "evaluated")
  /\ UNCHANGED <<prog, pc, last, calls, lexer, scan, host>>

\* v.Compare(w)
CompareCall ==
  /\ prog.fam = "repr"
  /\ trip.st = "evaluated"
  /\ trip' = [trip EXCEPT !.cmp = Compare(trip.v, trip.w), !.st = "compared"]
  /\ UNCHANGED <<prog, ev, pc, last, calls, lexer, scan, host>>

ReprNext ==
  \/ EvalLiteral
  \/ ReprCall
  \/ ParseCall
  \/ EvalCall
  \/ CompareCall

ReprSpec == ReprInit /\ [][ReprNext]_vars

(***************************************************************************)
(* The command line program (README.md:173-236, the cli package): after    *)
(* NewEvaluator it calls Test in test mode and run otherwise.  One action  *)
(* is one call Test, testSection or run makes on the evaluator, with what  *)
(* the caller does with the result.  Here prog is                          *)
(*   [fam |-> "host", mode, head, p1, e1, p2, e2]:                         *)
(*   mode   "test" or "run"                                                *)
(*   head   what the test section (test mode) or the file section (run     *)
(*          mode) is: a string, a number, a call of read, or missing       *)
(*   p1,p2  the expressions of part1 and part2 as indices of HostExprs,    *)
(*          p2 = 0 for a program without part2                             *)
(*   e1,e2  the same for test_part1 and test_part2, 0 for none             *)
(* host.pc is the call the host makes next, "returned" after Test or run   *)
(* has returned, "panic" after it has panicked; host.vals are the section  *)
(* values it has got, host.trace the calls it has made, in order.          *)
(***************************************************************************)
\* the string of the test section
TestText == <<" ", "a", "\n", "b", "\n">>

\* a name os.ReadFile finds
FileName == <<"i", "n">>

HostExprs ==
  <<Num(1), Num(2), Str(<<"a">>), Nil, Id("input"),
    Call(Id("len"), <<Id("lines")>>), Bin("[", Id("lines"), Num(0)),
    Arr(<<Num(1)>>), Bin("+", Num(1), Str(<<"a">>))>>

HostHead(d) ==
  CASE d.head = "str" -> Str(IF d.mode = "test" THEN TestText ELSE FileName)
    [] d.head = "num" -> Num(5)
    [] d.head = "read" -> Call(Id("read"), <<Str(FileName)>>)

HostSections(d) ==
  <<[on |-> d.head # "none",
     sec |-> Section(IF d.mode = "test" THEN "test" ELSE "file",
                     IF d.head = "none" THEN ExprStmt(Nil)
                     ELSE ExprStmt(HostHead(d)))],
    [on |-> TRUE, sec |-> Section("part1", ExprStmt(HostExprs[d.p1]))],
    [on |-> d.e1 > 0,
     sec |-> Section("test_part1",
                     ExprStmt(HostExprs[IF d.e1 > 0 THEN d.e1 ELSE 1]))],
    [on |-> d.p2 > 0,
     sec |-> Section("part2",
                     ExprStmt(HostExprs[IF d.p2 > 0 THEN d.p2 ELSE 1]))],
    [on |-> d.e2 > 0,
     sec |-> Section("test_part2",
                     ExprStmt(HostExprs[IF d.e2 > 0 THEN d.e2 ELSE 1]))]>>

HostProgram(d) ==
  LET on == SelectSeq(HostSections(d), LAMBDA x : x.on)
  IN [i \in 1..Len(on) |-> on[i].sec]

\* part2 and test_part2 of the programs: none, equal numbers, different
\* numbers, a value computed from lines, a missing test_part2, two arrays
Part2Pairs == {<<0, 0>>, <<1, 1>>, <<1, 2>>, <<6, 2>>, <<1, 0>>, <<8, 8>>}

HostDescs ==
  {[fam |-> "host", mode |-> "test", head |-> h, p1 |-> p1, e1 |-> e1,
    p2 |-> q[1], e2 |-> q[2]] :
     h \in {"str", "num", "none"}, p1 \in DOMAIN HostExprs,
     e1 \in {0, 1, 2, 3, 4, 8}, q \in Part2Pairs}
  \cup
  {[fam |-> "host", mode |-> "run", head |-> h, p1 |-> p1, e1 |-> 0,
    p2 |-> p2, e2 |-> 0] :
     h \in {"str", "num", "none", "read"}, p1 \in DOMAIN HostExprs,
     p2 \in {0, 1, 5, 6}}

HostInit ==
  /\ prog \in HostDescs
  /\ ev = NewMachine
  /\ pc = "new"
  /\ last = NoCall
  /\ calls = 0
  /\ lexer = NewLexer(<< >>)
  /\ scan = NoScan
  /\ trip = NoTrip
  /\ host = NoHost

\* lang.NewEvaluator(&prog, &l, profile)
HostConstruct ==
  /\ pc = "new"
  /\ ev' = NewEvaluator(HostProgram(prog))
  /\ pc' = "idle"
  /\ host' = [host EXCEPT !.pc = IF prog.mode = "test" THEN "test" ELSE "file"]
  /\ UNCHANGED <<prog, last, calls, lexer, scan, trip>>

\* the host after a panic with error e in the call named name
HostPanic(h, name, e) ==
  [h EXCEPT !.pc = "panic", !.err = e, !.trace = Append(h.trace, name)]

\* the host after the call named name has given value v
HostGot(h, name, v) ==
  [h EXCEPT !.vals = (name :> v) @@ h.vals, !.trace = Append(h.trace, name)]

\* README.md:174-179 (Test) and README.md:213-220 (run) after the section
\* named name has been evaluated with outcome r: its value must be a
\* string, and ReadInput gets that string; then the host goes on to part1
HostInputOf(h, name, r) ==
  IF r.sig # "ok"
  THEN [m |-> r.m, h |-> HostPanic(h, name, r.err)]
  ELSE IF r.val.tag # "string"
  THEN [m |-> r.m,
        h |-> HostPanic(HostGot(h, name, r.val), "check",
                        E(IF name = "test" THEN "GoError" ELSE "GoString",
                          "expected a string", 0))]
  ELSE [m |-> ReadInput(r.m, r.val.str),
        h |-> [HostGot(HostGot(h, name, r.val), "ReadInput", r.val)
                 EXCEPT !.pc = "part1"]]

HostInput(m, h, name) == HostInputOf(h, name, EvalSection(m, name))

\* README.md:231-235 after ev.EvalSection(name) with outcome r
evalSectionOf(h, name, r) ==
  IF r.sig # "ok"
  THEN [m |-> r.m, h |-> HostPanic(h, name, r.err), ok |-> FALSE,
        val |-> NilValue]
  ELSE [m |-> r.m, h |-> HostGot(h, name, r.val), ok |-> TRUE, val |-> r.val]

\* README.md:227-236
evalSection(m, h, name) == evalSectionOf(h, name, EvalSection(m, name))

\* fmt.Printf of README.md:203-207; the coloured mark is "+" or "-"
TestLine(m, res, name, expected, actual) ==
  IF res THEN <<"+", " ", name, "\n">>
  ELSE <<"-", " ", name, "\n", "  expected ">> \o Repr(m, expected)
       \o <<"\n", "       got ">> \o Repr(m, actual) \o <<"\n">>

\* fmt.Printf of README.md:221 and 223
RunLine(m, name, v) == <<name, ":", " ">> \o Repr(m, v) \o <<"\n">>

\* README.md:198-209 with the outcome cmp of Compare: ok tells whether
\* testSection returned, val what
testCompared(expected, actual, actualSection, cmp) ==
  IF ~actual.ok THEN [actual EXCEPT !.val = FALSE]
  ELSE IF cmp.err
  THEN [actual EXCEPT !.ok = FALSE, !.val = FALSE,
          !.h = HostPanic(actual.h, "Compare",
                          E("GoError", "cannot compare", 0))]
  ELSE [actual EXCEPT !.val = cmp.res,
          !.m.out = @ \o TestLine(actual.m, cmp.res, actualSection,
                                  expected.val, actual.val)]

\* README.md:196-198: res, err := expected.Compare(actual)
testActual(expected, actual, actualSection) ==
  testCompared(expected, actual, actualSection,
               Compare(expected.val, actual.val))

\* README.md:192-196 after the expected section: actual := evalSection(...)
testExpected(expected, actualSection) ==
  testActual(expected,
             IF expected.ok
             THEN evalSection(expected.m, expected.h, actualSection)
             ELSE expected,
             actualSection)

\* README.md:191-210
testSection(m, h, expectedSection, actualSection) ==
  testExpected(evalSection(m, h, expectedSection), actualSection)

\* README.md:174-179: testInput, err := ev.EvalSection("test") up to
\* ev.ReadInput(*testInput.Str)
TestInput ==
  /\ prog.mode = "test" /\ host.pc = "test"
  /\ \E r \in {HostInput(ev, host, "test")} : ev' = r.m /\ host' = r.h
  /\ UNCHANGED <<prog, pc, last, calls, lexer, scan, trip>>

\* README.md:183: oneOk = testSection(ev, "test_part1", "part1", benchMode),
\* and the test of README.md:184
TestPart1 ==
  /\ prog.mode = "test" /\ host.pc = "part1"
  /\ \E r \in {testSection(ev, host, "test_part1", "part1")} :
       /\ ev' = r.m
       /\ host' = IF ~r.ok THEN r.h
                  ELSE [r.h EXCEPT !.oneOk = r.val,
                          !.pc = IF HasSection(r.m, "part2") THEN "part2"
                                 ELSE "return"]
  /\ UNCHANGED <<prog, pc, last, calls, lexer, scan, trip>>

\* README.md:185: twoOk = testSection(ev, "test_part2", "part2", benchMode)
TestPart2 ==
  /\ prog.mode = "test" /\ host.pc = "part2"
  /\ \E r \in {testSection(ev, host, "test_part2", "part2")} :
       /\ ev' = r.m
       /\ host' = IF ~r.ok THEN r.h
                  ELSE [r.h EXCEPT !.twoOk = r.val, !.pc = "return"]
  /\ UNCHANGED <<prog, pc, last, calls, lexer, scan, trip>>

\* variant: the result is that of part1 alone
TestResultOne(oneOk, twoOk) == oneOk

\* README.md:188
TestResult(oneOk, twoOk) == oneOk /\ twoOk

\* README.md:188: return oneOk && twoOk
TestReturn ==
  /\ prog.mode = "test" /\ host.pc = "return"
  /\ host' = [host EXCEPT !.ret = TestResult(host.oneOk, host.twoOk),
                !.pc = "returned"]
  /\ UNCHANGED <<prog, ev, pc, last, calls, lexer, scan, trip>>

\* aoc_test.go:35-38: result := cli.Test(&ev, false) is false and the test
\* suite reports the file, or is true and it does not
TestFiles ==
  /\ prog.mode = "test" /\ host.pc = "returned"
  /\ host' = [host EXCEPT !.suite = IF ~host.ret THEN "error" ELSE "pass",
                !.pc = "checked"]
  /\ UNCHANGED <<prog, ev, pc, last, calls, lexer, scan, trip>>

\* README.md:213-220: f, err := ev.EvalSection("file") up to
\* ev.ReadInput(*f.Str)
RunInput ==
  /\ prog.mode = "run" /\ host.pc = "file"
  /\ \E r \in {HostInput(ev, host, "file")} : ev' = r.m /\ host' = r.h
  /\ UNCHANGED <<prog, pc, last, calls, lexer, scan, trip>>

\* README.md:221-222: part1 is evaluated and its Repr printed
RunPart1 ==
  /\ prog.mode = "run" /\ host.pc = "part1"
  /\ \E r \in {evalSection(ev, host, "part1")} :
       /\ ev' = IF ~r.ok THEN r.m
                ELSE [r.m EXCEPT !.out = @ \o RunLine(r.m, "part1", r.val)]
       /\ host' = IF ~r.ok THEN r.h
                  ELSE [r.h EXCEPT
                          !.pc = IF HasSection(r.m, "part2") THEN "part2"
                                 ELSE "returned"]
  /\ UNCHANGED <<prog, pc, last, calls, lexer, scan, trip>>

\* README.md:223: part2 is evaluated and its Repr printed
RunPart2 ==
  /\ prog.mode = "run" /\ host.pc = "part2"
  /\ \E r \in {evalSection(ev, host, "part2")} :
       /\ ev' = IF ~r.ok THEN r.m
                ELSE [r.m EXCEPT !.out = @ \o RunLine(r.m, "part2", r.val)]
       /\ host' = IF ~r.ok THEN r.h ELSE [r.h EXCEPT !.pc = "returned"]
  /\ UNCHANGED <<prog, pc, last, calls, lexer, scan, trip>>

HostNext ==
  \/ HostConstruct
  \/ TestInput
  \/ TestPart1
  \/ TestPart2
  \/ TestReturn
  \/ TestFiles
  \/ RunInput
  \/ RunPart1
  \/ RunPart2

HostSpec == HostInit /\ [][HostNext]_vars

(***************************************************************************)
(* Properties.                                                             *)
(***************************************************************************)
\* an EvalSection call has returned or unwound and no other is in progress
Finished == pc = "idle" /\ last.phase = "finish"

\* the elements of the array the last call returned
ResultElems == IF last.val.tag = "array" THEN ArrayElems(ev, last.val)
               ELSE << >>

Nums(xs) == [i \in 1..Len(xs) |-> NumV(xs[i])]

\* C1: a return inside any nesting of blocks, if/else branches, for loops
\* and match cases ends the call at once: the call (or EvalSection) yields
\* the returned value 7 and none of the later statements, which print 'D',
\* has run.
C1_ReturnEndsCall ==
  (Finished /\ prog.fam = "ret") =>
    /\ last.sig = "ok"
    /\ last.val = NumV(7)
    /\ last.out = (IF prog.a = 0 THEN <<"L">> ELSE << >>)

\* C2: in a loop over three elements, break ends the loop in the first
\* iteration (output B E) and continue skips the rest of each iteration
\* (output B B B E); the statements after them, which print 'D' and 'A',
\* never run.
C2_BreakContinue ==
  (Finished /\ prog.fam = "brk") =>
    /\ last.sig = "ok"
    /\ last.out = (IF prog.a = 0 THEN <<"B", "E">>
                   ELSE <<"B", "B", "B", "E">>)

\* C3: whenever no EvalSection call is in progress, the active environment
\* is the root scope and every pushEnv has been matched by one popEnv.
C3_EnvRestored == (pc = "idle") => (ev.env = 1 /\ ev.pushes = ev.pops)

\* a call that pushed scopes in section main and in fn f and was ended by a
\* runtime error inside f
C3_Witness ==
  /\ Finished /\ prog.fam = "esc" /\ prog.a = 2 /\ prog.b = 1
  /\ prog.k1 = "forArr" /\ prog.k2 = "matchArr"
  /\ last.sig = "panic" /\ last.err.kind = "Runtime"
  /\ ev.pushes >= 4 /\ ev.env = 1

\* C4: a closure resolves its free variables where it was defined: the
\* adder made by make(a) yields a + b whatever n the caller holds, the
\* captured binding outlives the defining call and keeps its updates, and a
\* variable that only the caller defines is unknown to the callee.
C4_LexicalCapture ==
  (Finished /\ prog.fam = "clo") =>
    CASE prog.k1 \in {"make", "shadow"} ->
           last.sig = "ok" /\ last.val = NumV(prog.a + prog.b)
      [] prog.k1 = "counter" ->
           last.sig = "ok" /\ last.val = NumV(prog.a + 2)
      [] prog.k1 = "calleronly" ->
           /\ last.sig = "panic" /\ last.err.kind = "Runtime"
           /\ last.err.msg = "unknown variable"

\* make(5) called with 10 yields 15 although the caller holds n = 55
C4_Witness ==
  /\ Finished /\ prog = Desc("clo", "shadow", "", 5, 10, 55)
  /\ last.val = NumV(15)

\* C5: an EvalSection call is accepted exactly when no call is in progress
\* and the section is registered; a refused call panics and changes
\* nothing; the marker ev.section is set exactly while a call is in
\* progress.
C5_SectionGuard ==
  [][/\ (pc' = "running") <=> (ev'.section.t # "none")
     /\ (calls' = calls + 1) =>
          /\ (last'.sig = "ok" /\ pc' = "running")
               <=> (pc = "idle" /\ last'.name \in DOMAIN ev.sections)
          /\ (last'.sig # "ok") =>
               (last'.sig = "panic" /\ ev' = ev /\ pc' = pc)]_vars

\* a second call accepted after the first one was ended by a runtime error
C5_Witness ==
  /\ calls = 2 /\ pc = "running" /\ last.sig = "ok" /\ last.name = "main"
  /\ prog.fam = "esc" /\ prog.a = 2 /\ ev.pushes > 0

\* C6: an array returned by push or slice shares no storage with its
\* argument or with another result: the element the program returns is what
\* it was before the later push or subscript-assignment to another array.
C6_NoSharedStorage ==
  (Finished /\ prog.fam = "alias") =>
    (last.sig = "ok" /\ last.val = NumV(AliasExpected(prog)))

\* C7: after var b = push(a, x), len(a) is what it was before and len(b) is
\* one more.
C7_PushKeepsLength ==
  (Finished /\ prog.fam = "push") =>
    /\ last.sig = "ok"
    /\ ResultElems = Nums(<<prog.a, prog.a, prog.a + 1>>)

\* a push to an array literal of three elements, which has spare capacity
C7_Witness ==
  /\ Finished /\ prog = Desc("push", "lit", "", 3, 0, 0)
  /\ ResultElems = Nums(<<3, 3, 4>>)

\* C8: for operands tagged Number, String or Nil that Compare accepts,
\* a == b is the number 1 exactly when Compare(a, b) is true, else 0, and
\* a != b is the opposite number; for two different tags neither of which
\* is Nil, both operators raise a Runtime error.
C8_Equality ==
  (Finished /\ prog.fam = "cmp") =>
    LET ta == LitTags[prog.a]
        tb == LitTags[prog.b]
        simple == {"nil", "number", "string"}
    IN /\ (ta \in simple /\ tb \in simple /\ (ta = tb \/ "nil" \in {ta, tb}))
            => LET eq == Compare(LitVals[prog.a], LitVals[prog.b]).res
               IN /\ last.sig = "ok"
                  /\ eq <=> (LitVals[prog.a] = LitVals[prog.b])
                  /\ last.val = NumV(IF eq <=> (prog.c = 0) THEN 1 ELSE 0)
       /\ (ta # tb /\ ta # "nil" /\ tb # "nil")
            => (last.sig = "panic" /\ last.err.kind = "Runtime")

\* nil != 'a' is 1
C8_Witness ==
  /\ Finished /\ prog = Desc("cmp", "", "", 1, 4, 1)
  /\ last.val = NumV(1)

\* the numbers from a towards b, b excluded
ExpectedRange(a, b) ==
  IF a <= b THEN [i \in 1..(b - a) |-> a + i - 1]
  ELSE [i \in 1..(a - b) |-> a - i + 1]

\* C9: for all integers a and b, a loop over range(a, b) visits a and then
\* every number towards b, b excluded; over rangei(a, b) the same numbers
\* and then b; the loop terminates.
C9_RangeVisits ==
  (Finished /\ prog.fam = "rng") =>
    /\ last.sig = "ok"
    /\ ResultElems = Nums(ExpectedRange(prog.a, prog.b)
                          \o (IF prog.c = 1 THEN <<prog.b>> ELSE << >>))

\* C10: when an array pattern matches, each identifier at position i is
\* bound to the scrutinee's element i, in a scope only the case body sees.
C10_PatternBinds ==
  (Finished /\ prog.fam = "pat") =>
    CASE prog.k1 = "one" -> last.sig = "ok" /\ last.val = NumV(prog.a)
      [] prog.k1 = "two" ->
           last.sig = "ok" /\ ResultElems = Nums(<<prog.a, prog.b>>)
      [] prog.k1 = "three" ->
           last.sig = "ok" /\ ResultElems = Nums(<<prog.a, prog.b, prog.c>>)
      [] prog.k1 = "mixed" ->
           last.sig = "ok" /\ ResultElems = Nums(<<prog.a, 2, prog.c>>)
      [] prog.k1 = "scope" ->
           /\ last.out = <<"M">>
           /\ last.sig = "panic" /\ last.err.msg = "unknown variable"
      [] prog.k1 = "outer" ->
           last.out = <<"M">> /\ last.sig = "ok" /\ last.val = NumV(5)

\* C11: x / y and x % y with y equal to 0 (or nil) raise an Error of kind
\* Runtime that carries the line of the expression.
C11_DivByZero ==
  (Finished /\ prog.fam = "div") =>
    /\ last.sig = "panic"
    /\ last.err.kind = "Runtime"
    /\ last.err.line = prog.c

\* C12: a failure inside a native function reaches the caller as an Error
\* of kind Runtime whose line is the line of the calling expression.
C12_NativeErrors ==
  (Finished /\ prog.fam = "nat") =>
    /\ last.sig = "panic"
    /\ last.err.kind = "Runtime"
    /\ last.err.line = prog.c

\* C13: assigning to a name that no scope of the chain defines raises no
\* error (the next statement prints 'K'), creates no binding in any scope,
\* leaves the other bindings as they were, and a later lookup of the name
\* fails with an unknown-variable Runtime error.
C13_AssignUndefined ==
  (Finished /\ prog.fam = "asg") =>
    /\ last.out = <<"K">>
    /\ \A e \in 1..Len(ev.envs) : "u" \notin DOMAIN ev.envs[e].vars
    /\ ev.envs[1].vars = NativeBindings
    /\ IF prog.k1 = "lookup"
       THEN /\ last.sig = "panic"
            /\ last.err = E("Runtime", "unknown variable", prog.c)
       ELSE last.sig = "ok" /\ last.val = NumV(prog.b)

\* u = 7 inside a nested block, then the lookup of u on line 5 fails
C13_Witness ==
  /\ Finished /\ prog = Desc("asg", "lookup", "block", 7, 3, 5)
  /\ last.err = E("Runtime", "unknown variable", 5)
  /\ last.out = <<"K">>

\* C14: in `for a, b in m` over a Map every entry is visited exactly once,
\* and each iteration binds the first identifier a to the entry's value and
\* the second identifier b to the entry's key as a string.
C14_MapLoopBinds ==
  (Finished /\ prog.fam = "fmap") =>
    /\ last.sig = "ok"
    /\ Len(ResultElems) = 2 * prog.c
    /\ \A e \in 1..prog.c :
         Cardinality({i \in 1..prog.c :
                        /\ ResultElems[2 * i - 1] = NumV(FmapVals(prog)[e])
                        /\ ResultElems[2 * i] = StrV(<<FmapKeys[e]>>)}) = 1

\* C15: a variable declared with var in the body of a for loop during one
\* iteration is not visible in a later iteration of that loop, nor after
\* the loop: the second iteration reads the outer t (or finds no t at all),
\* and so does the return after the loop.
C15_LoopVarScoped ==
  (Finished /\ prog.fam = "lv") =>
    IF prog.k2 = "outer"
    THEN /\ last.sig = "ok"
         /\ last.out = Itoa(prog.a)
         /\ last.val = NumV(prog.a)
    ELSE /\ last.sig = "panic"
         /\ last.err = E("Runtime", "unknown variable", prog.c)
         /\ last.out = << >>

\* the operands of LogOperands that are numbers or nil, and the truthy ones
LogNumeric == 1..4
LogTruthy == {2, 3}

\* C16: for l && r and l || r both operands are always evaluated, left then
\* right, before the result is computed: r's side effect happens even when
\* l alone settles the result.  With operands that are numbers or nil the
\* result is the number 1 or 0 by the truthiness of the two operands; with
\* any other operand the operator raises a Runtime error, after both
\* operands have been evaluated.
C16_BothOperands ==
  (Finished /\ prog.fam = "log") =>
    /\ last.out = <<"L", "R">>
    /\ IF prog.a \in LogNumeric /\ prog.b \in LogNumeric
       THEN /\ last.sig = "ok"
            /\ last.val = NumV(IF (IF prog.k1 = "&&"
                                   THEN prog.a \in LogTruthy /\ prog.b \in LogTruthy
                                   ELSE prog.a \in LogTruthy \/ prog.b \in LogTruthy)
                               THEN 1 ELSE 0)
       ELSE /\ last.sig = "panic"
            /\ last.err = E("Runtime", "operator only supported for numbers",
                            prog.c)

\* l() && r() with l() = 0: r has run although l settles the result
C16_Witness ==
  /\ Finished
  /\ prog = Desc("log", "&&", "", 1, 2, 3)
  /\ last.out = <<"L", "R">>
  /\ last.val = NumV(0)

\* the tokens the pieces of a source stand for
RECURSIVE PieceTokens(_)
PieceTokens(items) ==
  IF items = << >> THEN << >>
  ELSE (IF Pieces[Head(items)].tag = "" THEN << >>
        ELSE <<[tag |-> Pieces[Head(items)].tag,
                str |-> Pieces[Head(items)].str]>>)
       \o PieceTokens(Tail(items))

\* a source made of valid tokens: every string is closed, no two pieces
\* run together, and only a line end follows a comment
ValidSource(items) ==
  /\ \A i \in 1..Len(items) : Pieces[items[i]].kind # "open"
  /\ \A i \in 1..(Len(items) - 1) :
       LET k1 == Pieces[items[i]].kind
           k2 == Pieces[items[i + 1]].kind
       IN /\ ~(k1 = "word" /\ k2 = "word")
          /\ ~(k1 = "op" /\ k2 = "op")
          /\ (k1 = "comment") => (k2 = "newline")

\* a source whose only ' opens a string that is never closed
OpenString(items) ==
  /\ \E i \in 1..Len(items) :
       /\ Pieces[items[i]].kind = "open"
       /\ i > 1 => Pieces[items[i - 1]].kind # "comment"
  /\ \A i \in 1..Len(items) :
       "'" \in {Pieces[items[i]].text[j] : j \in 1..Len(Pieces[items[i]].text)}
         => Pieces[items[i]].kind = "open"
  /\ Cardinality({i \in 1..Len(items) : Pieces[items[i]].kind = "open"}) = 1

\* C18: NextToken on a source in which an opening ' is never closed
\* terminates and returns a Lex error: the run never hangs in a call, never
\* reaches EOF, and ends with an error of kind Lex.
C18_UnterminatedString ==
  (prog.fam = "lex" /\ OpenString(prog.items)) =>
    /\ scan.st \in {"ready", "error"}
    /\ (scan.st = "error") => (scan.err.kind = "Lex")

\* C19: for every source made of valid tokens, repeated NextToken calls
\* return those tokens in order and then an EOF token, with whitespace and
\* #-comments skipped wherever they occur, also at the very end of the
\* source: no call fails, and what has been returned so far is the start of
\* the expected list.
C19_TokensInOrder ==
  (prog.fam = "lex" /\ ValidSource(prog.items)) =>
    LET want == PieceTokens(prog.items) \o <<[tag |-> "EOF", str |-> << >>]>>
    IN /\ scan.st \in {"ready", "eof"}
       /\ Len(scan.toks) <= Len(want)
       /\ scan.toks = SubSeq(want, 1, Len(scan.toks))
       /\ (scan.st = "eof") <=> (Len(scan.toks) = Len(want))

\* C20: assignment is right-associative: a = b = c parses as a = (b = c),
\* so evaluating it with a and b both declared leaves both holding the
\* value of c and raises no error.
C20_AssignRightAssoc ==
  (Finished /\ prog.fam = "assoc") =>
    /\ last.sig = "ok"
    /\ last.val = NumV(prog.c * 10 + prog.c)

\* the value v of the trip is of one of the tags given
TripTag(tags) == prog.fam = "repr" /\ trip.v.tag \in tags

\* C17: for every literal-constructible value v of tag Nil, Number, String
\* or Array, parsing v.Repr() as a fresh expression and evaluating it
\* yields a value w for which Compare(v, w) returns true.
C17_ReprRoundTrip ==
  (prog.fam = "repr") =>
    /\ trip.st # "failed"
    /\ (trip.st = "compared") => (trip.cmp.res /\ ~trip.cmp.err)

\* what the expressions of HostExprs yield after ReadInput(TestText);
\* entry 8 is an array and entry 9 raises an error
HostVals ==
  <<NumV(1), NumV(2), StrV(<<"a">>), NilValue, StrV(TestText), NumV(2),
    StrV(<<"a">>)>>

\* section expressions i and j yield the same Number, String or Nil
SameValue(i, j) ==
  /\ i \in DOMAIN HostVals /\ j \in DOMAIN HostVals
  /\ HostVals[i] = HostVals[j]

\* part1 equals test_part1 and, if there is a part2, part2 equals test_part2
AllEqual(d) == SameValue(d.p1, d.e1) /\ (d.p2 > 0 => SameValue(d.p2, d.e2))

\* C21: test mode evaluates the test section and seeds input and lines
\* from its string; Test returns true exactly when part1 equals test_part1
\* and, if part2 exists, part2 equals test_part2 (equal as Compare decides
\* it for Number, String and Nil): when it returns, its result is that
\* conjunction, and when the values are equal it does not panic; the test
\* suite reports an error exactly when the result is false.
C21_TestMode ==
  (prog.fam = "host" /\ prog.mode = "test") =>
    /\ (host.pc = "part1") =>
         /\ host.trace = <<"test", "ReadInput">>
         /\ find(ev, "input").val = StrV(TestText)
         /\ find(ev, "lines").val.tag = "array"
         /\ ArrayElems(ev, find(ev, "lines").val)
              = <<StrV(<<"a">>), StrV(<<"b">>)>>
    /\ (host.pc \in {"returned", "checked"}) => (host.ret <=> AllEqual(prog))
    /\ (host.pc = "panic") => ~(prog.head = "str" /\ AllEqual(prog))
    /\ (host.pc = "checked") =>
         (host.suite = IF AllEqual(prog) THEN "pass" ELSE "error")

\* part1 is len(lines) and equals test_part1, part2 differs from test_part2:
\* Test has returned false and the suite has reported the file
C21_Witness ==
  /\ prog = [fam |-> "host", mode |-> "test", head |-> "str", p1 |-> 6,
             e1 |-> 2, p2 |-> 1, e2 |-> 2]
  /\ host.pc = "checked" /\ host.oneOk /\ ~host.twoOk /\ ~host.ret
  /\ host.suite = "error"

IsPrefix(s, t) == Len(s) <= Len(t) /\ s = SubSeq(t, 1, Len(s))

\* C22: in run mode the host evaluates the file section, reads the file it
\* names, evaluates part1 and then part2, in this order, and from the
\* moment part1 is about to start input holds the contents of the file named
\* by the file section and lines holds those contents split into lines.
C22_RunOrder ==
  (prog.fam = "host" /\ prog.mode = "run") =>
    /\ \/ IsPrefix(host.trace, <<"file", "ReadInput", "part1", "part2">>)
       \/ host.pc = "panic"
    /\ ( /\ host.pc \in {"part1", "part2", "returned"}
         /\ host.vals["file"].str \in DOMAIN Files )
       => /\ find(ev, "input").val = StrV(Files[host.vals["file"].str])
          /\ ArrayElems(ev, find(ev, "lines").val)
               = [i \in 1..Len(Split(Files[host.vals["file"].str], "\n")) |->
                    StrV(Split(Files[host.vals["file"].str], "\n")[i])]

\* the value of u after the construct of a "scope" program: the inner var
\* shadowed it, unless there was no inner scope or no inner var
ScopeAfter(d) ==
  IF d.k1 = "assign" \/ d.k2 = "none" THEN d.c ELSE d.a

\* C23: var u = b in an inner scope binds u there only, and u = c then
\* rebinds the nearest scope that defines u: inside, u reads a, then b,
\* then c; after the inner scope is popped u is again a when it was
\* shadowed, and c when the assignment reached the outer binding; the
\* assignment w = 9 reaches the outer w; no other binding changes (the
\* global scope holds the native functions as before).
C23_ScopedBinding ==
  (Finished /\ prog.fam = "scope") =>
    LET first == IF prog.k1 = "declare"
                 THEN Itoa(prog.a) \o Itoa(prog.b) \o Itoa(prog.c)
                 ELSE Itoa(prog.a) \o Itoa(prog.c)
        final == Itoa(ScopeAfter(prog)) \o <<"9">>
    IN /\ last.sig = "ok"
       /\ IsPrefix(first, last.out)
       /\ Len(last.out) >= Len(first) + 2
       /\ SubSeq(last.out, Len(last.out) - 1, Len(last.out)) = final
       /\ last.val = NumV(ScopeAfter(prog))
       /\ ev.env = 1 /\ ev.envs[1].vars = NativeBindings

\* { var u = 1; var w = 1; { print(u); var u = 3; print(u); u = 5;
\* print(u); w = 9 }; print(u); print(w); return u } prints 1 3 5 1 9
C23_Witness ==
  /\ Finished /\ prog = Desc("scope", "declare", "block", 1, 3, 5)
  /\ last.out = <<"1", "3", "5", "1", "9">> /\ last.val = NumV(1)

\* the scopes that bind the parameter p of the closure of family "call"
CallScopes == {i \in DOMAIN ev.envs : "p" \in DOMAIN ev.envs[i].vars}

\* C24: the call h(b) of the closure made by mk(a) runs in one fresh scope
\* that holds exactly p = b and whose parent is the captured scope of mk
\* (n = a, itself a child of the global scope): the body prints b and the
\* captured a.  However the call ends, the caller is back in its own
\* environment: after a call that falls off the end or returns, the caller
\* reads its own n = c, and the call that fell off the end gave Nil; after an
\* arity mismatch (no scope is made), a runtime error or an escaping break
\* or continue the section unwinds to the global scope.
C24_CallEnvironment ==
  (Finished /\ prog.fam = "call") =>
    /\ ev.env = 1
    /\ IF prog.k1 = "arity" THEN CallScopes = {}
       ELSE /\ CallScopes # {}
            /\ \A i \in CallScopes :
                 /\ ev.envs[i].vars = ("p" :> NumV(prog.b))
                 /\ ev.envs[i].parent # 0
                 /\ "n" \in DOMAIN ev.envs[ev.envs[i].parent].vars
                 /\ ev.envs[ev.envs[i].parent].vars["n"] = NumV(prog.a)
                 /\ ev.envs[ev.envs[i].parent].parent = 1
    /\ CASE prog.k1 = "fall" ->
              /\ last.sig = "ok" /\ last.val = NumV(prog.c)
              /\ last.out = Itoa(prog.b) \o Itoa(prog.a) \o Itoa(prog.c)
                              \o <<"n", "i", "l">>
         [] prog.k1 = "return" ->
              /\ last.sig = "ok" /\ last.val = NumV(prog.c)
              /\ last.out = Itoa(prog.b) \o Itoa(prog.c)
                              \o Itoa(prog.a + prog.b)
         [] prog.k1 = "arity" ->
              /\ last.sig = "panic" /\ last.err.kind = "Runtime"
              /\ last.err.msg = "arity mismatch" /\ last.out = << >>
         [] prog.k1 = "error" ->
              /\ last.sig = "panic" /\ last.err.kind = "Runtime"
              /\ last.out = Itoa(prog.b)
         [] prog.k1 = "break" ->
              /\ last.sig = "panic" /\ last.err.kind = "Break"
              /\ last.out = Itoa(prog.b)
         [] prog.k1 = "continue" ->
              /\ last.sig = "panic" /\ last.err.kind = "Continue"
              /\ last.out = Itoa(prog.b)

\* h(3) of mk(1) falls off the end inside a block of a caller holding n = 5:
\* 3 and 1 are printed by the body, 5 and nil by the caller
C24_Witness ==
  /\ Finished /\ prog = Desc("call", "fall", "block", 1, 3, 5)
  /\ last.out = <<"3", "1", "5", "n", "i", "l">>
  /\ \E i \in CallScopes : ev.envs[i].vars = ("p" :> NumV(3))

\* a pattern fully matches a scrutinee, both given as literals: a string
\* pattern matches the same string; an array pattern matches an array at
\* least as long whose elements equal the pattern's at every place where
\* the pattern has no identifier
PatMatches(pat, scr) ==
  CASE pat.t = "str" -> scr.t = "str" /\ scr.s = pat.s
    [] pat.t = "arr" ->
         /\ scr.t = "arr"
         /\ Len(scr.items) >= Len(pat.items)
         /\ \A i \in 1..Len(pat.items) :
              pat.items[i].t = "id" \/ pat.items[i] = scr.items[i]

\* the cases of a "mat" program and the first of them that matches, or 0
MatCases(d) ==
  <<MatPatterns[d.b], MatPatterns[d.c], Arr(<<Id("x"), Id("y")>>)>>

FirstMatch(d) ==
  LET hit == {i \in 1..3 : PatMatches(MatCases(d)[i], MatScrutinees[d.a])}
  IN IF hit = {} THEN 0 ELSE CHOOSE i \in hit : \A j \in hit : i <= j

\* C25: a match evaluates its scrutinee once (one S is printed) and then
\* the body of the first case whose pattern fully matches and of no other
\* case; when no case matches no body is evaluated; no error is raised, the
\* statement after the match runs (E is printed) and the match yields Nil.
C25_FirstMatchOnly ==
  (Finished /\ prog.fam = "mat") =>
    /\ last.sig = "ok" /\ last.val = NilValue
    /\ last.out = <<"S">>
                  \o (IF FirstMatch(prog) = 0 THEN << >>
                      ELSE Itoa(FirstMatch(prog)))
                  \o <<"E">>

\* an array pattern of a "mat" program has a non-identifier element that
\* does not equal the element of the array scrutinee at its place
ElementMismatch(pat, scr) ==
  /\ pat.t = "arr" /\ scr.t = "arr"
  /\ \E i \in 1..Len(pat.items) :
       /\ i <= Len(scr.items)
       /\ pat.items[i].t # "id"
       /\ pat.items[i] # scr.items[i]

\* C26: when a non-identifier element of an array pattern does not equal
\* the scrutinee's element, or cannot be compared with it (a Number against
\* a String), the case is skipped and the next case is tried: its body is
\* not evaluated and no error reaches the caller of the match.
C26_MismatchSkipsCase ==
  (Finished /\ prog.fam = "mat") =>
    \A i \in 1..2 :
      ElementMismatch(MatCases(prog)[i], MatScrutinees[prog.a]) =>
        /\ last.sig = "ok"
        /\ \A j \in 1..Len(last.out) : last.out[j] # Itoa(i)[1]
        /\ last.out[Len(last.out)] = "E"

\* the elements of the array held by the global variable a
GlobalArray == ArrayElems(ev, ev.envs[1].vars["a"])

\* C27: an integer index that is negative or not below the length, used to
\* read an element of [1, 2, 3], to read a character of 'xyz' or to write
\* an element of [1, 2, 3], raises a Runtime error that carries the line of
\* the subscript, and the array is then unchanged; an index within the
\* range reads or writes the element at that index.
C27_IndexOutOfRange ==
  (Finished /\ prog.fam = "idx") =>
    IF prog.a < 0 \/ prog.a >= 3
    THEN /\ last.sig = "panic" /\ last.err.kind = "Runtime"
         /\ last.err.line = prog.c
         /\ GlobalArray = Nums(<<1, 2, 3>>)
    ELSE /\ last.sig = "ok"
         /\ CASE prog.k1 = "readArr" -> last.val = NumV(prog.a + 1)
              [] prog.k1 = "readStr" ->
                   last.val = StrV(<<IdxString[prog.a + 1]>>)
              [] prog.k1 = "write" ->
                   /\ last.out = <<"W">>
                   /\ GlobalArray
                        = [Nums(<<1, 2, 3>>) EXCEPT ![prog.a + 1] = NumV(9)]

\* C28: slice(a, from, to) with 0 <= from <= to <= len(a) returns exactly
\* the elements a[from], ..., a[to - 1], also for to = len(a) and for
\* from = to; every other pair of bounds raises a Runtime error.
C28_SliceBounds ==
  (Finished /\ prog.fam = "slc") =>
    IF 0 <= prog.a /\ prog.a <= prog.b /\ prog.b <= prog.c
    THEN /\ last.sig = "ok" /\ last.val.tag = "array"
         /\ ResultElems = [i \in 1..(prog.b - prog.a) |-> NumV(prog.a + i)]
    ELSE last.sig = "panic" /\ last.err.kind = "Runtime"

\* the digits printed for the numbers xs
Printed(xs) == [i \in 1..Len(xs) |-> Itoa(xs[i])[1]]

\* the numbers a loop visits that breaks at the first c
UpTo(xs, c) ==
  LET at == {i \in 1..Len(xs) : xs[i] = c}
  IN IF at = {} THEN xs
     ELSE SubSeq(xs, 1, CHOOSE i \in at : \A j \in at : i <= j)

\* C30: a for loop over a Range held in a variable does not change what a
\* later loop over the same Range visits: after a first loop that ran to
\* its end or ended by break, the second loop visits every number from a
\* towards b.
C30_RangeReusable ==
  (Finished /\ prog.fam = "twice") =>
    /\ last.sig = "ok"
    /\ last.out = Printed(UpTo(ExpectedRange(prog.a, prog.b), prog.c))
                  \o <<"|">> \o Printed(ExpectedRange(prog.a, prog.b))

\* C29: when NextToken fails on a character of the source that starts no
\* token, the line of the Lex error is the line the character is on: one
\* more than the number of newlines before it, whatever strings and
\* comments come before.
C29_ErrorLine ==
  ( /\ prog.fam = "line" /\ scan.st = "error"
    /\ scan.err.msg = "unexpected character"
    /\ lexer.tokenStart < Len(lexer.src) )
  => /\ scan.err.kind = "Lex"
     /\ scan.err.line
          = 1 + Cardinality({i \in 1..lexer.tokenStart : lexer.src[i] = "\n"})

====
